---- MODULE Spec2Model ----
(***************************************************************************)
(* Model of the sayou-healthcare crawlers: the health.kr drug search       *)
(* (health), the nedrug spreadsheet download (nedrug) and the record       *)
(* constructors of the hira and nedrug data models.                        *)
(*                                                                         *)
(* A Python str is modelled as a text: a sequence of fragments, which are  *)
(* single characters wherever the code looks inside the string.  Korean    *)
(* literals of the source are replaced by ASCII stand-ins, named where     *)
(* they are defined.                                                       *)
(***************************************************************************)
EXTENDS Integers, Sequences, FiniteSets, TLC

VARIABLES
    \* ---- record constructors (pure functions applied to one input) ----
    row,        \* a spreadsheet row: a tuple of cells (openpyxl values_only)
    tr,         \* an HTML table row handed to MedicineTableParser._parse_row
    rec_kind,   \* which constructor has been applied: "none" before the call
    rec,        \* the record it returned
    \* ---- health crawler (HealthCrawler.medicines -> fetch_all) ----
    h_pc,       \* "idle", "loop" (inside _fetch_by_initial), "done", "raised"
    h_idx,      \* index (from 1) of the initial being processed by fetch_all
    h_page_num, \* page_num of _fetch_by_initial
    h_medicines,     \* medicines of _fetch_by_initial
    h_all_medicines, \* all_medicines of fetch_all
    h_result,   \* value returned by medicines(); NoResult until it returns
    h_csv,      \* content of the output CSV file (a sequence of rows)
    h_trace,    \* sleeps, HTTP requests, responses and writer calls, in order
    \* ---- nedrug crawler (NedrugCrawler.download -> DownloadParser.fetch) ----
    n_pc,       \* "idle", "loop", "done"
    n_page_num, \* page_num of fetch
    n_all_medicines, \* all_medicines of fetch
    n_page_results,  \* page_results of fetch
    n_result,   \* the DownloadResult returned; NoResult until fetch returns
    n_files,    \* files written under local_path: filename -> content
    n_trace,    \* one entry per _download_page call, in order
    n_server_name, \* the file name the server gives its exports in this run
    \* ---- MedicineCsvWriter called directly on a list of medicines ----
    w_pc,       \* "idle", then the method that was called: "save", "save_full"
    w_medicines, \* the list handed to the writer
    \* ---- hira crawler, HiraCrawler.download -> DownloadParser.fetch ----
    d_pc,       \* "idle", "done" (fetch returned), "raised"
    d_rows,     \* the tr elements of the board table the server answered with
    d_requests, \* the HTTP requests issued, in order
    d_result,   \* None, a DownloadResult or an exception; NoResult before
    d_files,    \* names of the files written under local_path, in order
    d_out,      \* what the server and the disk did during the call
    \* ---- hira crawler, OpenDataParser (opendata, hospitals, pharmacies) ----
    o_hospital_data,  \* self._hospital_data
    o_pharmacy_data,  \* self._pharmacy_data
    o_clock,    \* number of fetch calls so far (stands for datetime.now())
    o_last,     \* the last call of the crawler: what it did and returned
    o_fetched,  \* the pair parsed by the last fetch, if it found both files
    \* ---- nedrug crawler, NedrugCrawler.parse -> ExcelParser.parse ----
    x_pc,       \* "idle", "done" (parse returned), "raised"
    x_files,    \* the sheets of the matching files of ./data, in glob order
    x_result,   \* what parse returned or raised; NoResult before the call
    \* ---- health crawler, DownloadParser.fetch and parse ----
    f_pc,       \* "idle", "loop", "done" (fetch returned), "raised"
    f_initial_num,  \* initial_num of fetch
    f_page_num, \* page_num of fetch
    f_total_rows,   \* total_rows of fetch
    f_last,     \* the last parse call: its arguments and the body it sent
    f_reads,    \* the indices at which fetch has read KOREAN_INITIALS
    f_csv,      \* the file medicine_list_health.csv of the working directory
    \* ---- parsers and exporters applied to one document ----
    p_kind,     \* what p_in is: "table" (tr elements), "sheet" (rows), "none"
    p_in,       \* the document handed to the function
    p_fn,       \* the function that has been applied: "none" before the call
    p_out       \* what it returned or wrote

rec_vars == <<row, tr, rec_kind, rec>>
h_vars == <<h_pc, h_idx, h_page_num, h_medicines, h_all_medicines, h_result,
            h_csv, h_trace>>
n_vars == <<n_pc, n_page_num, n_all_medicines, n_page_results, n_result,
            n_files, n_trace, n_server_name>>
w_vars == <<w_pc, w_medicines>>
d_vars == <<d_pc, d_rows, d_requests, d_result, d_files, d_out>>
o_vars == <<o_hospital_data, o_pharmacy_data, o_clock, o_last, o_fetched>>
x_vars == <<x_pc, x_files, x_result>>
f_vars == <<f_pc, f_initial_num, f_page_num, f_total_rows, f_last, f_reads,
            f_csv>>
p_vars == <<p_kind, p_in, p_fn, p_out>>
vars == <<rec_vars, h_vars, n_vars, w_vars, d_vars, o_vars, x_vars, f_vars,
          p_vars>>

\* what the actions of one part leave alone
not_rec_vars ==
    <<h_vars, n_vars, w_vars, d_vars, o_vars, x_vars, f_vars, p_vars>>
not_h_vars ==
    <<rec_vars, n_vars, w_vars, d_vars, o_vars, x_vars, f_vars, p_vars>>
not_n_vars ==
    <<rec_vars, h_vars, w_vars, d_vars, o_vars, x_vars, f_vars, p_vars>>
not_hw_vars ==
    <<rec_vars, n_vars, d_vars, o_vars, x_vars, f_vars, p_vars>>
not_d_vars ==
    <<rec_vars, h_vars, n_vars, w_vars, o_vars, x_vars, f_vars, p_vars>>
not_o_vars ==
    <<rec_vars, h_vars, n_vars, w_vars, d_vars, x_vars, f_vars, p_vars>>
not_x_vars ==
    <<rec_vars, h_vars, n_vars, w_vars, d_vars, o_vars, f_vars, p_vars>>
not_f_vars ==
    <<rec_vars, h_vars, n_vars, w_vars, d_vars, o_vars, x_vars, p_vars>>
not_p_vars ==
    <<rec_vars, h_vars, n_vars, w_vars, d_vars, o_vars, x_vars, f_vars>>

(***************************************************************************)
(* Python values.  Every value has the same three fields so that any two   *)
(* values can be compared.                                                 *)
(***************************************************************************)
None == [kind |-> "none", text |-> <<>>, num |-> 0]
StrV(t) == [kind |-> "str", text |-> t, num |-> 0]
IntV(n) == [kind |-> "int", text |-> <<>>, num |-> n]
EmptyStr == StrV(<<>>)

\* Python truthiness of a cell value
Truthy(v) ==
    CASE v.kind = "none" -> FALSE
      [] v.kind = "str" -> v.text # <<>>
      [] OTHER -> v.num # 0

\* Python `needle in haystack` on two texts
Contains(haystack, needle) ==
    \E i \in 1..(Len(haystack) - Len(needle) + 1) :
        SubSeq(haystack, i, i + Len(needle) - 1) = needle

Min(a, b) == IF a < b THEN a ELSE b

Digit == <<"0", "1", "2", "3", "4", "5", "6", "7", "8", "9">>

\* the text "c<p>" that marks the cell at (0-based) position p of a row
PosText(p) == <<"c", Digit[(p \div 10) + 1], Digit[(p % 10) + 1]>>

(***************************************************************************)
(* Column mappings.  A Python dict keeps insertion order; from_tuple only  *)
(* uses list(columns.keys()), so a mapping is modelled by its key list.    *)
(* The (Korean) column title of each key is the dict value in the source.  *)
(***************************************************************************)
\* nedrug/utils.py: position 0 is the item-code column, 1 the product name
GEMINI_COLUMNS == <<
    "item_code", "product_name", "product_name_eng", "company_name",
    "company_name_eng", "approval_date", "item_category", "approval_number",
    "cancel_status", "cancel_date", "main_ingredient", "additives",
    "item_classification", "prescription_type", "finished_or_raw",
    "approval_type", "manufacture_or_import", "narcotic_classification",
    "shape", "color", "formulation", "major_axis", "minor_axis",
    "new_drug_status", "standard_code_name", "atc_code",
    "bundled_drug_info", "e_drug_info", "import_country",
    "main_ingredient_eng" >>

\* hira/utils.py: 0 encrypted institution code, 1 institution name,
\* 9 postal code, 10 address, 11 phone number, 12 hospital website
HOSPITAL_COLUMNS == <<
    "encrypted_medical_institution_code", "medical_institution_name",
    "type_code", "type_code_name", "city_province_code",
    "city_province_code_name", "district_code", "district_code_name",
    "town_village", "postal_code", "address", "phone_number",
    "hospital_website", "opening_date", "total_doctors",
    "medical_general_practitioner_count", "medical_intern_count",
    "medical_resident_count", "medical_specialist_count",
    "dental_general_practitioner_count", "dental_intern_count",
    "dental_resident_count", "dental_specialist_count",
    "korean_medicine_general_practitioner_count",
    "korean_medicine_intern_count", "korean_medicine_resident_count",
    "korean_medicine_specialist_count", "midwife_count", "coordinate_x",
    "coordinate_y" >>

\* hira/utils.py: 1 institution name, 10 address
PHARMACY_COLUMNS == <<
    "encrypted_medical_institution_code", "medical_institution_name",
    "type_code", "type_code_name", "city_province_code",
    "city_province_code_name", "district_code", "district_code_name",
    "town_village", "postal_code", "address", "phone_number",
    "opening_date", "coordinate_x", "coordinate_y" >>

\* a zip that pads a short row with empty strings up to the key list
DictZip_padded(keys, r) ==
    [k \in {keys[i] : i \in 1..Len(keys)} |->
        LET i == CHOOSE i \in 1..Len(keys) : keys[i] = k
        IN  IF i <= Len(r) THEN r[i] ELSE EmptyStr]

\* dict(zip(keys, row)): pairs up to the shorter of the two, later pairs win
DictZip(keys, r) ==
    LET n == Min(Len(keys), Len(r))
    IN  [k \in {keys[i] : i \in 1..n} |->
            r[CHOOSE i \in 1..n :
                  keys[i] = k /\ \A j \in 1..n : keys[j] = k => j <= i]]

\* data.get(key, default)
DictGet(data, key, default) ==
    IF key \in DOMAIN data THEN data[key] ELSE default

\* int(text) succeeds on a non-empty text of decimal digits
IsDigits(t) ==
    /\ t # <<>>
    /\ \A i \in 1..Len(t) : \E d \in 1..10 : Digit[d] = t[i]

RECURSIVE DigitsValue(_)
DigitsValue(t) ==
    IF t = <<>> THEN 0
    ELSE 10 * DigitsValue(SubSeq(t, 1, Len(t) - 1))
         + ((CHOOSE d \in 1..10 : Digit[d] = t[Len(t)]) - 1)

\* Hospital._parse_int: None stays None, ValueError/TypeError give None
Hospital_parse_int(value) ==
    CASE value.kind = "none" -> None
      [] value.kind = "int" -> value
      [] value.kind = "str" /\ IsDigits(value.text) ->
             IntV(DigitsValue(value.text))
      [] OTHER -> None

\* nedrug Medicine.from_tuple(row, columns, index)
Medicine_from_tuple(r, columns, index) ==
    LET keys == columns
        data == DictZip(keys, r)
    IN  [id |-> index,
         item_seq |-> DictGet(data, "item_seq", EmptyStr),
         product_name |-> DictGet(data, "product_name", EmptyStr),
         product_name_eng |-> DictGet(data, "product_name_eng", None),
         company_name |-> DictGet(data, "company_name", None),
         company_name_eng |-> DictGet(data, "company_name_eng", None),
         permit_date |-> DictGet(data, "permit_date", None),
         cancel_date |-> DictGet(data, "cancel_date", None),
         cancel_name |-> DictGet(data, "cancel_name", None),
         etc_otc_name |-> DictGet(data, "etc_otc_name", None),
         chart |-> DictGet(data, "chart", None),
         material_name |-> DictGet(data, "material_name", None),
         storage_method |-> DictGet(data, "storage_method", None),
         valid_term |-> DictGet(data, "valid_term", None),
         pack_unit |-> DictGet(data, "pack_unit", None),
         reexam_target |-> DictGet(data, "reexam_target", None),
         reexam_date |-> DictGet(data, "reexam_date", None),
         induty_type |-> DictGet(data, "induty_type", None),
         standard_code |-> DictGet(data, "standard_code", None),
         atc_code |-> DictGet(data, "atc_code", None),
         narcotic_kind |-> DictGet(data, "narcotic_kind", None),
         is_new_drug |-> DictGet(data, "is_new_drug", None),
         insert_file |-> DictGet(data, "insert_file", None),
         change_date |-> DictGet(data, "change_date", None)]

\* hira Hospital.from_tuple(row, columns, index)
Hospital_from_tuple(r, columns, index) ==
    LET keys == columns
        data == DictZip(keys, r)
    IN  [id |-> index,
         name |-> DictGet(data, "medical_institution_name", EmptyStr),
         address |-> DictGet(data, "address", EmptyStr),
         encrypted_institution_code |->
             DictGet(data, "encrypted_institution_code", None),
         institution_type |-> DictGet(data, "institution_type", None),
         sido |-> DictGet(data, "sido", None),
         sigungu |-> DictGet(data, "sigungu", None),
         zip_code |-> DictGet(data, "zip_code", None),
         phone |-> DictGet(data, "phone", None),
         website |-> DictGet(data, "website", None),
         opening_date |-> DictGet(data, "opening_date", None),
         total_beds |-> Hospital_parse_int(DictGet(data, "total_beds", None)),
         total_doctors |->
             Hospital_parse_int(DictGet(data, "total_doctors", None))]

\* hira Pharmacy.from_tuple(row, columns, index)
Pharmacy_from_tuple(r, columns, index) ==
    LET keys == columns
        data == DictZip(keys, r)
    IN  [id |-> index,
         name |-> DictGet(data, "pharmacy_name", EmptyStr),
         address |-> DictGet(data, "address", EmptyStr),
         encrypted_institution_code |->
             DictGet(data, "encrypted_institution_code", None),
         sido |-> DictGet(data, "sido", None),
         sigungu |-> DictGet(data, "sigungu", None),
         zip_code |-> DictGet(data, "zip_code", None),
         phone |-> DictGet(data, "phone", None),
         opening_date |-> DictGet(data, "opening_date", None)]

(***************************************************************************)
(* health: MedicineTableParser.  An HTML row (tr) is modelled by what the  *)
(* parser reads from it:                                                   *)
(*   ths       text_content() of each th descendant                        *)
(*   tds       text_content() of each td descendant                        *)
(*   idfy      for each td[@class="img"]/img: the group captured by        *)
(*             IDFY_POP_PATTERN in its onclick, None when it does not match*)
(*   detail    for each td[@class="txtL"]: the group captured by           *)
(*             DETAIL_HREF_PATTERN in its onclick, None when no match      *)
(*   img_srcs  the src of each td[@class="img"]/img                        *)
(***************************************************************************)
EMPTY_IMAGE_PATH == <<"/images/img_empty3.jpg">>

\* str.strip(): drop leading and trailing blanks
RECURSIVE Strip(_)
Strip(t) ==
    IF t = <<>> THEN t
    ELSE IF Head(t) = " " THEN Strip(Tail(t))
    ELSE IF t[Len(t)] = " " THEN Strip(SubSeq(t, 1, Len(t) - 1))
    ELSE t

\* first non-None element of a sequence of match results, None if there is none
RECURSIVE FirstMatch(_)
FirstMatch(ms) ==
    IF ms = <<>> THEN None
    ELSE IF Head(ms) # None THEN Head(ms)
    ELSE FirstMatch(Tail(ms))

\* MedicineTableParser._extract_medicine_code
extract_medicine_code(r) ==
    IF FirstMatch(r.idfy) # None THEN FirstMatch(r.idfy)
    ELSE FirstMatch(r.detail)

\* MedicineTableParser._extract_image_url
extract_image_url(r) ==
    IF r.img_srcs # <<>> /\ r.img_srcs[1] # EMPTY_IMAGE_PATH
    THEN StrV(r.img_srcs[1])
    ELSE None

\* td_texts[i] if len(td_texts) > i else default   (i counts from 0)
TextAt(td_texts, i, default) ==
    IF Len(td_texts) > i THEN StrV(td_texts[i + 1]) ELSE default

\* a _parse_row that keeps the first td
parse_row_unpopped(r) ==
    LET td_all == [i \in 1..Len(r.tds) |-> Strip(r.tds[i])]
    IN  IF r.ths # <<>> \/ td_all = <<>> THEN None
        ELSE [name |-> TextAt(td_all, 0, EmptyStr),
              code |-> extract_medicine_code(r),
              ingredient |-> TextAt(td_all, 1, None),
              effect |-> TextAt(td_all, 2, None),
              company |-> TextAt(td_all, 3, None),
              category |-> TextAt(td_all, 4, None),
              form |-> TextAt(td_all, 5, None),
              expert |-> TextAt(td_all, 6, None),
              insurance |-> TextAt(td_all, 7, None),
              bioequiv |-> TextAt(td_all, 8, None),
              image |-> extract_image_url(r)]

\* MedicineTableParser._parse_row: None for a row that is skipped
parse_row(r) ==
    LET th_texts == [i \in 1..Len(r.ths) |-> Strip(r.ths[i])]
        td_all == [i \in 1..Len(r.tds) |-> Strip(r.tds[i])]
        td_texts == Tail(td_all)     \* td_texts.pop(0)
    IN  IF th_texts # <<>> THEN None
        ELSE IF td_all = <<>> THEN None
        ELSE [name |-> TextAt(td_texts, 0, EmptyStr),
              code |-> extract_medicine_code(r),
              ingredient |-> TextAt(td_texts, 1, None),
              effect |-> TextAt(td_texts, 2, None),
              company |-> TextAt(td_texts, 3, None),
              category |-> TextAt(td_texts, 4, None),
              form |-> TextAt(td_texts, 5, None),
              expert |-> TextAt(td_texts, 6, None),
              insurance |-> TextAt(td_texts, 7, None),
              bioequiv |-> TextAt(td_texts, 8, None),
              image |-> extract_image_url(r)]

\* MedicineTableParser.parse on the tr elements of table tbl_pro
RECURSIVE MedicineTableParser_parse(_)
MedicineTableParser_parse(table_rows) ==
    IF table_rows = <<>> THEN <<>>
    ELSE LET medicine == parse_row(Head(table_rows))
         IN  (IF medicine # None THEN <<medicine>> ELSE <<>>)
             \o MedicineTableParser_parse(Tail(table_rows))

(***************************************************************************)
(* The state before any crawler method has been called.                    *)
(***************************************************************************)
NoResult == [kind |-> "noresult"]
NoFile == [exists |-> FALSE, rows |-> <<>>]
\* an output file left by an earlier run
OldFile == [exists |-> TRUE, rows |-> << <<<<"id">>, <<"name">>>> >>]

HealthIdle(csv) ==
    /\ h_pc = "idle"
    /\ h_idx = 1
    /\ h_page_num = 1
    /\ h_medicines = <<>>
    /\ h_all_medicines = <<>>
    /\ h_result = NoResult
    /\ h_csv = csv
    /\ h_trace = <<>>

NedrugIdle ==
    /\ n_pc = "idle"
    /\ n_page_num = 0
    /\ n_all_medicines = <<>>
    /\ n_page_results = <<>>
    /\ n_result = NoResult
    /\ n_files = <<>>
    /\ n_trace = <<>>
    /\ n_server_name = <<>>

CsvWriterIdle ==
    /\ w_pc = "idle"
    /\ w_medicines = <<>>

HiraDownloadIdle ==
    /\ d_pc = "idle"
    /\ d_rows = <<>>
    /\ d_requests = <<>>
    /\ d_result = NoResult
    /\ d_files = <<>>
    /\ d_out = NoResult

\* OpenDataParser.__init__; no call made yet
NoCall ==
    [call |-> "none", fetched |-> FALSE, requests |-> <<>>, extractions |-> 0,
     raised |-> FALSE, result |-> None, before |-> NoResult,
     out |-> NoResult]

OpenDataIdle ==
    /\ o_hospital_data = None
    /\ o_pharmacy_data = None
    /\ o_clock = 0
    /\ o_last = NoCall
    /\ o_fetched = NoResult

NedrugParseIdle ==
    /\ x_pc = "idle"
    /\ x_files = <<>>
    /\ x_result = NoResult

\* no parse call made yet
NoParse == [page_num |-> 0, initial |-> <<>>, req_page |-> <<>>,
            listup |-> <<>>, search_drugnm_initial |-> <<>>, returned |-> 0]

HealthFetchIdle ==
    /\ f_pc = "idle"
    /\ f_initial_num = 1
    /\ f_page_num = 1
    /\ f_total_rows = <<>>
    /\ f_last = NoParse
    /\ f_reads = {}
    /\ f_csv = NoFile

\* no document handed to a parser yet
DocumentIdle ==
    /\ p_kind = "none"
    /\ p_in = <<>>
    /\ p_fn = "none"
    /\ p_out = None

\* the parts that take no part in a specification
OthersIdle ==
    /\ CsvWriterIdle
    /\ HiraDownloadIdle
    /\ OpenDataIdle
    /\ NedrugParseIdle
    /\ HealthFetchIdle
    /\ DocumentIdle

RecIdle ==
    /\ row = <<>>
    /\ tr = [ths |-> <<>>, tds |-> <<>>, idfy |-> <<>>, detail |-> <<>>,
             img_srcs |-> <<>>]
    /\ rec_kind = "none"
    /\ rec = None

(***************************************************************************)
(* Record constructors applied to bounded inputs (specification SpecRec).  *)
(***************************************************************************)
MaxRowLen == 31     \* longest spreadsheet row tried (the mappings have 30 keys)
MaxTds == 11        \* most td cells in an HTML row tried
MaxIndex == 2       \* largest index argument tried

\* stand-in for the header keyword of the nedrug sheets (the item-code title)
HEADER_KEYWORD == <<"K", "W">>

\* cell values other than the position mark: an empty cell, an empty string,
\* numbers, a numeric string, a non-numeric string, a header title
SpecialCells ==
    {None, EmptyStr, IntV(0), IntV(7), StrV(<<"4", "2">>), StrV(<<"4", "x">>),
     StrV(<<"(", "K", "W", ")">>)}

\* the cell at 0-based position p of a row whose cells name their position
PosCell(p) == StrV(PosText(p))

\* a row of len cells; the cell at 1-based index b (none if b = 0) holds v
MkRow(len, b, v) ==
    [i \in 1..len |-> IF i = b THEN v ELSE PosCell(i - 1)]

Rows ==
    {MkRow(len, 0, None) : len \in 0..MaxRowLen}
    \cup UNION {{MkRow(len, b, v) : b \in 1..len, v \in SpecialCells} :
                len \in 1..MaxRowLen}

\* an HTML row with nth th cells and ntd td cells; the second td is padded
\* with blanks when pad holds
MkTr(nth, ntd, pad, idfy, detail, img_srcs) ==
    [ths |-> [i \in 1..nth |-> <<"h">>],
     tds |-> [i \in 1..ntd |->
                 IF pad /\ i = 2 THEN <<" ">> \o PosText(i - 1) \o <<" ", " ">>
                 ELSE PosText(i - 1)],
     idfy |-> idfy, detail |-> detail, img_srcs |-> img_srcs]

IdfyChoices == {<<>>, <<None>>, <<None, StrV(<<"A", "1">>)>>}
DetailChoices == {<<>>, <<StrV(<<"B", "2">>)>>}
ImgSrcChoices == {<<>>, <<EMPTY_IMAGE_PATH>>, << <<"/img/1.jpg">> >>}

Trs ==
    {MkTr(nth, ntd, pad, idfy, detail, img_srcs) :
        nth \in 0..1, ntd \in 0..MaxTds, pad \in BOOLEAN,
        idfy \in IdfyChoices, detail \in DetailChoices,
        img_srcs \in ImgSrcChoices}

InitRec ==
    /\ \/ row \in Rows /\ tr = MkTr(0, 0, FALSE, <<>>, <<>>, <<>>)
       \/ row = <<>> /\ tr \in Trs
    /\ rec_kind = "none"
    /\ rec = None
    /\ HealthIdle(NoFile)
    /\ NedrugIdle
    /\ OthersIdle

\* Medicine.from_tuple(row, GEMINI_COLUMNS, index)
MedicineFromTuple ==
    /\ rec_kind = "none"
    /\ \E index \in 0..MaxIndex :
           rec' = Medicine_from_tuple(row, GEMINI_COLUMNS, index)
    /\ rec_kind' = "medicine"
    /\ UNCHANGED <<row, tr, not_rec_vars>>

\* Hospital.from_tuple(row, HOSPITAL_COLUMNS, index)
HospitalFromTuple ==
    /\ rec_kind = "none"
    /\ \E index \in 0..MaxIndex :
           rec' = Hospital_from_tuple(row, HOSPITAL_COLUMNS, index)
    /\ rec_kind' = "hospital"
    /\ UNCHANGED <<row, tr, not_rec_vars>>

\* Pharmacy.from_tuple(row, PHARMACY_COLUMNS, index)
PharmacyFromTuple ==
    /\ rec_kind = "none"
    /\ \E index \in 0..MaxIndex :
           rec' = Pharmacy_from_tuple(row, PHARMACY_COLUMNS, index)
    /\ rec_kind' = "pharmacy"
    /\ UNCHANGED <<row, tr, not_rec_vars>>

\* MedicineTableParser._parse_row(tr)
ParseRow ==
    /\ rec_kind = "none"
    /\ rec' = parse_row(tr)
    /\ rec_kind' = "health_row"
    /\ UNCHANGED <<row, tr, not_rec_vars>>

NextRec ==
    \/ MedicineFromTuple
    \/ HospitalFromTuple
    \/ PharmacyFromTuple
    \/ ParseRow

SpecRec == InitRec /\ [][NextRec]_vars

(***************************************************************************)
(* Properties of the record constructors.                                  *)
(***************************************************************************)
\* the spreadsheet position (from 0) each record field is documented to hold;
\* a field that is not listed holds no spreadsheet column
MedicinePos ==
    [item_seq |-> 0, product_name |-> 1, product_name_eng |-> 2,
     company_name |-> 3, company_name_eng |-> 4, cancel_date |-> 9,
     atc_code |-> 25]
HospitalPos ==
    [encrypted_institution_code |-> 0, name |-> 1, zip_code |-> 9,
     address |-> 10, phone |-> 11, website |-> 12, opening_date |-> 13,
     total_doctors |-> 14]
PharmacyPos ==
    [encrypted_institution_code |-> 0, name |-> 1, zip_code |-> 9,
     address |-> 10, phone |-> 11, opening_date |-> 12]
\* the fields of a health Medicine that hold td cells, by index after pop(0)
HealthRowPos ==
    [name |-> 0, ingredient |-> 1, effect |-> 2, company |-> 3,
     category |-> 4, form |-> 5, expert |-> 6, insurance |-> 7,
     bioequiv |-> 8]
RequiredStrings == {"item_seq", "product_name", "name", "address"}

\* every field of record r that holds no cell of a row of len cells is absent
AbsentBeyond(r, pos, len) ==
    \A f \in DOMAIN r \ {"id", "code", "image"} :
        (f \notin DOMAIN pos \/ pos[f] >= len) =>
            r[f] = (IF f \in RequiredStrings THEN EmptyStr ELSE None)

\* C3: Medicine.from_tuple sets item_seq to the row's first cell (the
\* item-code column at position 0 of GEMINI_COLUMNS), so item_seq is
\* non-empty whenever that cell is.
C3_ItemSeqIsFirstCell ==
    (rec_kind = "medicine" /\ Len(row) >= 1) => rec.item_seq = row[1]

\* C4: Pharmacy.from_tuple of a row with at least two cells sets name to the
\* cell at position 1 (institution name) and address to the cell at
\* position 10 of PHARMACY_COLUMNS.
C4_PharmacyNameAddress ==
    (rec_kind = "pharmacy" /\ Len(row) >= 2) =>
        /\ rec.name = row[2]
        /\ Len(row) >= 11 => rec.address = row[11]

\* C5: Hospital.from_tuple of a full-length row takes
\* encrypted_institution_code from position 0, zip_code from position 9,
\* phone from position 11 and website from position 12; each is None only
\* when its cell is empty.
C5_HospitalPositions ==
    (rec_kind = "hospital" /\ Len(row) >= Len(HOSPITAL_COLUMNS)) =>
        /\ rec.encrypted_institution_code = row[1]
        /\ rec.zip_code = row[10]
        /\ rec.phone = row[12]
        /\ rec.website = row[13]

\* C6: for a row shorter than the column mapping (the empty row included)
\* the three from_tuple constructors return a record in which every field
\* mapped at or beyond the row's length is None (the empty string for
\* item_seq, product_name, name, address); _parse_row likewise leaves every
\* field whose td is missing None and name the empty string.
C6_MissingTrailingAbsent ==
    /\ (rec_kind = "medicine" /\ Len(row) < Len(GEMINI_COLUMNS)) =>
           AbsentBeyond(rec, MedicinePos, Len(row))
    /\ (rec_kind = "hospital" /\ Len(row) < Len(HOSPITAL_COLUMNS)) =>
           AbsentBeyond(rec, HospitalPos, Len(row))
    /\ (rec_kind = "pharmacy" /\ Len(row) < Len(PHARMACY_COLUMNS)) =>
           AbsentBeyond(rec, PharmacyPos, Len(row))
    /\ (rec_kind = "health_row" /\ rec # None) =>
           AbsentBeyond(rec, HealthRowPos, Len(tr.tds) - 1)

\* a hospital built from a ten-cell row: the name is there, the address is not
C6_Witness ==
    /\ rec_kind = "hospital"
    /\ Len(row) = 10
    /\ rec.name = PosCell(1)
    /\ rec.address = EmptyStr
    /\ rec.opening_date = None

(***************************************************************************)
(* health crawler: HealthClient, DownloadParser.fetch_all,                 *)
(* _fetch_by_initial, _fetch_page and MedicineCsvWriter.save_full.         *)
(***************************************************************************)
MaxPages == 3       \* pages one loop may request before the model stops it
MaxPageRows == 2    \* most tr elements in one result table
MaxGets == 1        \* direct HealthClient._get calls tried

\* health/utils.py: the 14 Hangul consonants, by Unicode code point
\* (U+3131 giyeok, U+3134 nieun, ..., U+314E hieut)
KOREAN_INITIALS ==
    <<12593, 12596, 12599, 12601, 12609, 12610, 12613,
      12615, 12616, 12618, 12619, 12620, 12621, 12622>>

DEFAULT_PAGE_SIZE == 1000
DEFAULT_WAIT_TIME == 10

HexDigit == <<"0", "1", "2", "3", "4", "5", "6", "7", "8", "9",
              "A", "B", "C", "D", "E", "F">>

\* "%XX" for one byte
PercentByte(b) == <<"%", HexDigit[(b \div 16) + 1], HexDigit[(b % 16) + 1]>>

\* urllib.parse.quote(ch, encoding="utf-8") of one character of the Basic
\* Multilingual Plane at or above U+0800: three percent-encoded UTF-8 bytes
quote(cp) ==
    PercentByte(224 + (cp \div 4096))
    \o PercentByte(128 + ((cp \div 64) % 64))
    \o PercentByte(128 + (cp % 64))

\* one entry of the trace of a health run
Event(ev, page, n, initial) ==
    [ev |-> ev, page |-> page, n |-> n, initial |-> initial]

\* HealthClient._rate_limit: time.sleep(self._rate_limit_delay)
HealthClient_rate_limit == <<Event("rate_limit", 0, 0, <<>>)>>

\* Response.raise_for_status raises HTTPError for a 4xx or 5xx status
RaisesForStatus(status) == status >= 400 /\ status < 600

\* decimal text of a natural number (str(index))
RECURSIVE DecimalText(_)
DecimalText(n) ==
    IF n < 10 THEN <<Digit[n + 1]>>
    ELSE DecimalText(n \div 10) \o <<Digit[(n % 10) + 1]>>

\* the fields of the SearchPayload dataclass, in declaration order
SearchPayloadFields ==
    <<"req_page", "listup", "search_drugnm_initial", "inner_search_word",
      "origin_cnt", "inner_search_flag", "inner_match_value", "input_drug_nm",
      "input_upsoNm", "cbx_sunbcnt", "cbx_class",
      "anchor_dosage_route_hidden", "mfds_cd", "mfds_cdword",
      "input_hiraingdcd", "search_sunb1", "search_sunb2", "search_sunb3",
      "sunb_equals1", "sunb_equals2", "sunb_equals3", "sunb_where1",
      "sunb_where2", "search_effect", "cbx_bohtype", "search_bohcode",
      "anchor_form_info_hidden", "cbx_narcotic", "atccode_val",
      "atccode_name", "kpic_atc_nm_opener", "kpic_atc_nm", "cbx_bio", "icode",
      "ori_search_word", "search_flag", "movefrom", "viewmode", "more">>

\* SearchPayload(req_page=..., listup=..., search_drugnm_initial=...): the
\* three fields given, the others at their defaults; each value as the
\* text str() gives
SearchPayload(req_page, listup, search_drugnm_initial) ==
    [k \in {SearchPayloadFields[i] : i \in 1..Len(SearchPayloadFields)} |->
        CASE k = "req_page" -> DecimalText(req_page)
          [] k = "listup" -> DecimalText(listup)
          [] k = "search_drugnm_initial" -> search_drugnm_initial
          [] k \in {"cbx_sunbcnt", "cbx_class"} -> <<"0">>
          [] k \in {"sunb_where1", "sunb_where2"} -> <<"and">>
          [] k = "movefrom" -> <<"drug">>
          [] OTHER -> <<>>]

\* a body that leaves out the fields whose value is empty
to_urlencoded_nonblank(payload) ==
    SelectSeq([i \in 1..Len(SearchPayloadFields) |->
                  <<SearchPayloadFields[i], payload[SearchPayloadFields[i]]>>],
              LAMBDA pair : pair[2] # <<>>)

\* SearchPayload.to_urlencoded: the key=value parts, in field order, that
\* are joined with "&"; no value is quoted
to_urlencoded(payload) ==
    [i \in 1..Len(SearchPayloadFields) |->
        <<SearchPayloadFields[i], payload[SearchPayloadFields[i]]>>]

\* the post of a request with its body
PostEvent(page_num, listup, encoded_initial) ==
    Event("post", page_num, listup, encoded_initial)
    @@ [body |-> to_urlencoded(SearchPayload(page_num, listup,
                                             encoded_initial))]

\* a _post that issues the request without the rate-limit sleep
HealthClient_post_unlimited(page_num, listup, encoded_initial, out) ==
    [events |->
        <<PostEvent(page_num, listup, encoded_initial)>>
        \o (IF out.kind = "response"
            THEN <<Event("response", page_num, out.status, <<>>)>>
            ELSE <<>>),
     raised |-> out.kind # "response" \/ RaisesForStatus(out.status)]

\* HealthClient._post with the SearchPayload of _fetch_page; out is what the
\* network does: no response at all (session.post raises) or a response.
\* Gives the events performed and whether the call raised.
HealthClient_post(page_num, listup, encoded_initial, out) ==
    [events |->
        HealthClient_rate_limit
        \o <<PostEvent(page_num, listup, encoded_initial)>>
        \o (IF out.kind = "response"
            THEN <<Event("response", page_num, out.status, <<>>)>>
            ELSE <<>>),
     raised |-> out.kind # "response" \/ RaisesForStatus(out.status)]

\* HealthClient._get, called directly on crawler.client
HealthClient_get(out) ==
    [events |->
        HealthClient_rate_limit
        \o <<Event("get", 0, 0, <<>>)>>
        \o (IF out.kind = "response"
            THEN <<Event("response", 0, out.status, <<>>)>>
            ELSE <<>>),
     raised |-> out.kind # "response" \/ RaisesForStatus(out.status)]

\* the csv module writes None as the empty field and a str as it is
CsvField(v) == IF v.kind = "str" THEN v.text ELSE <<>>

\* field order of asdict(Medicine) in health/models.py
HealthFieldNames ==
    <<"name", "code", "ingredient", "effect", "company", "category", "form",
      "expert", "insurance", "bioequiv", "image">>

\* MedicineCsvWriter.save_full: the file after the call
save_full(csv, medicines) ==
    IF medicines = <<>> THEN csv
    ELSE [exists |-> TRUE,
          rows |->
            << <<<<"id">>>> \o [i \in 1..Len(HealthFieldNames) |->
                                   <<HealthFieldNames[i]>>] >>
            \o [k \in 1..Len(medicines) |->
                  <<DecimalText(k)>>
                  \o [i \in 1..Len(HealthFieldNames) |->
                         CsvField(medicines[k][HealthFieldNames[i]])]]]

\* the initials fetch_all iterates over: KOREAN_INITIALS[:1]
FetchAllInitials == SubSeq(KOREAN_INITIALS, 1, Min(1, Len(KOREAN_INITIALS)))

\* HTML rows a result page is made of: a header row, a row with a single
\* td, a full row of 11 td with a detail code and a picture
HealthHeaderTr == MkTr(1, 0, FALSE, <<>>, <<>>, <<>>)
HealthShortTr == MkTr(0, 1, FALSE, <<>>, <<>>, <<>>)
HealthFullTr ==
    MkTr(0, 11, TRUE, <<None>>, <<StrV(<<"B", "2">>)>>, << <<"/img/1.jpg">> >>)

\* the sequence of n copies of x
Repeat(x, n) == [i \in 1..n |-> x]

\* the tr elements of a result table: no row, the header alone, the header
\* and up to MaxPageRows - 1 full rows, a short row alone, MaxPageRows full
\* rows without header
HealthPages ==
    {<<>>, <<HealthShortTr>>, Repeat(HealthFullTr, MaxPageRows)}
    \cup {<<HealthHeaderTr>> \o Repeat(HealthFullTr, k) :
              k \in 0..(MaxPageRows - 1)}

\* what one POST can bring back: no response (timeout, connection error), an
\* error status, a redirect status without Location, or 200; the body is an
\* empty document (lxml raises ParserError) or a document with table rows
HealthOutcomes ==
    {[kind |-> "exception", status |-> 0, empty_doc |-> TRUE, rows |-> <<>>]}
    \cup {[kind |-> "response", status |-> st, empty_doc |-> TRUE,
           rows |-> <<>>] : st \in {200, 302, 404, 500}}
    \cup {[kind |-> "response", status |-> 302, empty_doc |-> FALSE,
           rows |-> <<>>]}
    \cup {[kind |-> "response", status |-> 200, empty_doc |-> FALSE,
           rows |-> rs] : rs \in HealthPages}

\* a direct call of crawler.client._get(url)
HealthClientGet ==
    /\ h_pc = "idle" /\ n_pc = "idle"
    /\ Cardinality({i \in 1..Len(h_trace) : h_trace[i].ev = "get"}) < MaxGets
    /\ \E out \in {o \in HealthOutcomes :
                       o.empty_doc /\ o.status \in {0, 200, 404}} :
           h_trace' = h_trace \o HealthClient_get(out).events
    /\ UNCHANGED <<h_pc, h_idx, h_page_num, h_medicines, h_all_medicines,
                   h_result, h_csv, not_h_vars>>

\* HealthCrawler.medicines() -> fetch_all up to the first loop iteration of
\* _fetch_by_initial
HealthMedicines ==
    /\ h_pc = "idle" /\ n_pc = "idle"
    /\ h_all_medicines' = <<>>
    /\ h_idx' = 1
    /\ h_medicines' = <<>>
    /\ h_page_num' = 1
    /\ IF FetchAllInitials = <<>>
       THEN /\ h_pc' = "done"
            /\ h_trace' = h_trace \o <<Event("save_full", 0, 0, <<>>)>>
            /\ h_csv' = save_full(h_csv, <<>>)
            /\ h_result' = [kind |-> "list", value |-> <<>>]
       ELSE /\ h_pc' = "loop"
            /\ UNCHANGED <<h_trace, h_csv, h_result>>
    /\ UNCHANGED not_h_vars

\* _fetch_by_initial returns medicines; fetch_all extends all_medicines and
\* goes on with the next initial or saves and returns
HealthInitialDone(events) ==
    LET all == h_all_medicines \o h_medicines
    IN  /\ h_all_medicines' = all
        /\ IF h_idx < Len(FetchAllInitials)
           THEN /\ h_idx' = h_idx + 1
                /\ h_medicines' = <<>>
                /\ h_page_num' = 1
                /\ h_pc' = "loop"
                /\ h_trace' = h_trace \o events
                /\ UNCHANGED <<h_csv, h_result>>
           ELSE /\ h_pc' = "done"
                /\ h_trace' = h_trace \o events
                       \o <<Event("save_full", 0, Len(all), <<>>)>>
                /\ h_csv' = save_full(h_csv, all)
                /\ h_result' = [kind |-> "list", value |-> all]
                /\ UNCHANGED <<h_idx, h_page_num, h_medicines>>

\* a handler that swallows the exception and ends pagination with what was
\* collected, as the nedrug page boundary does
HealthRaise_swallowed(events, type) == HealthInitialDone(events)

\* the exception leaves _fetch_page, _fetch_by_initial, fetch_all and
\* medicines(): none of them has a handler
HealthRaise(events, type) ==
    /\ h_pc' = "raised"
    /\ h_trace' = h_trace \o events
    /\ h_result' = [kind |-> "exception", value |-> <<type>>]
    /\ UNCHANGED <<h_idx, h_page_num, h_medicines, h_all_medicines, h_csv>>

\* a loop that tests the accumulated list instead of the page just fetched
BreakOnEmpty_total(page_medicines, medicines) ==
    medicines \o page_medicines = <<>>

\* `if not page_medicines: break`
BreakOnEmpty(page_medicines, medicines) == page_medicines = <<>>

\* a loop that asks for the same page again
NextPageNum_same(page_num) == page_num

\* `page_num += 1`
NextPageNum(page_num) == page_num + 1

\* one iteration of the while loop of _fetch_by_initial
HealthFetchPage ==
    /\ h_pc = "loop"
    /\ h_page_num <= MaxPages
    /\ \E out \in HealthOutcomes :
        LET encoded_initial == quote(FetchAllInitials[h_idx])
            call == HealthClient_post(h_page_num, DEFAULT_PAGE_SIZE,
                                      encoded_initial, out)
            page_medicines == MedicineTableParser_parse(out.rows)
            parsed == Event("parse", h_page_num, Len(page_medicines), <<>>)
        IN  IF call.raised
            THEN HealthRaise(call.events,
                             IF out.kind = "response" THEN "HTTPError"
                             ELSE "RequestException")
            ELSE IF out.empty_doc
            THEN HealthRaise(call.events, "ParserError")
            ELSE IF BreakOnEmpty(page_medicines, h_medicines)
            THEN HealthInitialDone(call.events \o <<parsed>>)
            ELSE /\ h_medicines' = h_medicines \o page_medicines
                 /\ h_page_num' = NextPageNum(h_page_num)
                 /\ h_trace' = h_trace \o call.events \o <<parsed>>
                        \o <<Event("sleep", 0, DEFAULT_WAIT_TIME, <<>>)>>
                 /\ UNCHANGED <<h_pc, h_idx, h_all_medicines, h_result, h_csv>>
    /\ UNCHANGED not_h_vars

(***************************************************************************)
(* nedrug crawler: DownloadParser.fetch and _download_page.                *)
(* A file name is a text whose fragments keep ".xls" and ".XLS" whole, so  *)
(* that lower(), replace() and endswith() act as they do on the string.    *)
(***************************************************************************)
MaxNedrugPages == 3   \* pages one fetch may request before the model stops it
PageSize == 2         \* page_size of the DownloadParser (10000 by default)

\* str.lower() on a file name
Lower(t) ==
    [i \in 1..Len(t) |->
        CASE t[i] = ".XLS" -> ".xls"
          [] t[i] = "X" -> "x"
          [] t[i] = "LIST" -> "list"
          [] OTHER -> t[i]]

\* str.replace(old, new) where old is one fragment
RECURSIVE Replace(_, _, _)
Replace(t, old, new) ==
    IF t = <<>> THEN <<>>
    ELSE (IF Head(t) = old THEN new ELSE <<Head(t)>>)
         \o Replace(Tail(t), old, new)

\* str.endswith(suffix)
EndsWith(t, suffix) ==
    /\ Len(t) >= Len(suffix)
    /\ SubSeq(t, Len(t) - Len(suffix) + 1, Len(t)) = suffix

\* DownloadFile.detect_file_type
detect_file_type(filename) ==
    LET lower_name == Lower(filename)
    IN  IF EndsWith(lower_name, <<".xls", "x">>) THEN "XLSX"
        ELSE IF EndsWith(lower_name, <<".xls">>) THEN "XLS"
        ELSE IF EndsWith(lower_name, <<".csv">>) THEN "CSV"
        ELSE "UNKNOWN"

\* DownloadParser._generate_filename
generate_filename(original_filename, page_num, row_count) ==
    LET file_suffix == IF row_count >= PageSize
                       THEN (page_num + 1) * PageSize
                       ELSE page_num * PageSize + row_count
    IN  IF original_filename # <<>>
           /\ Contains(Lower(original_filename), <<".xls">>)
        THEN Replace(original_filename, ".xls",
                     <<"_">> \o DecimalText(file_suffix) \o <<".xls">>)
        ELSE <<"medicine_data_">> \o DecimalText(file_suffix) \o <<".xls">>

\* DownloadParser._is_header_row
is_header_row(r) ==
    \E i \in 1..Len(r) :
        Truthy(r[i]) /\ r[i].kind = "str" /\ Contains(r[i].text, HEADER_KEYWORD)

\* DownloadParser._convert_to_medicines
RECURSIVE ConvertFrom(_, _, _)
ConvertFrom(rows, idx, base_index) ==
    IF idx >= Len(rows) THEN <<>>
    ELSE (IF is_header_row(rows[idx + 1]) THEN <<>>
          ELSE <<Medicine_from_tuple(rows[idx + 1], GEMINI_COLUMNS,
                                     base_index + idx)>>)
         \o ConvertFrom(rows, idx + 1, base_index)

convert_to_medicines(rows, page_num) ==
    ConvertFrom(rows, 0, page_num * PageSize)

\* PageResult(...) and its is_empty property
PageResult(page_num, filename, download_file, medicines, has_more) ==
    [page_num |-> page_num, filename |-> filename,
     download_file |-> download_file, medicines |-> medicines,
     has_more |-> has_more]

PageResult_is_empty(page_result) == Len(page_result.medicines) = 0

\* nedrug get_filename(headers): None when Content-Disposition carries no
\* filename="..."; the latin1/utf-8 round trip leaves an ASCII name as it is
\* and raises UnicodeDecodeError on bytes that are not UTF-8
get_filename(headers) ==
    CASE headers.disposition = "absent" -> [raised |-> FALSE, value |-> None]
      [] headers.disposition = "not_utf8" -> [raised |-> TRUE, value |-> None]
      [] OTHER -> [raised |-> FALSE, value |-> StrV(headers.filename)]

\* the sheet rows of the downloads: the title row and a data row
NedrugHeaderRow == <<StrV(HEADER_KEYWORD), StrV(<<"n", "a", "m", "e">>)>>
NedrugDataRow == <<StrV(<<"2", "0", "1">>), StrV(<<"A", "s", "p">>)>>

\* the sheets tried, of at most page_size + 1 rows: title rows followed by
\* data rows, and data rows followed by one title row
NedrugSheets ==
    {Repeat(NedrugHeaderRow, ab[1]) \o Repeat(NedrugDataRow, ab[2]) :
         ab \in {p \in (0..(PageSize + 1)) \X (0..(PageSize + 1)) :
                    p[1] + p[2] <= PageSize + 1}}
    \cup {Append(Repeat(NedrugDataRow, b), NedrugHeaderRow) :
              b \in 1..PageSize}

FilenameChoices == {<<"list", ".xls", "x">>, <<"LIST", ".XLS">>, <<"list">>}

\* what one page request can bring: the POST raises; a response without file
\* name or with an undecodable one; a body openpyxl cannot load; a workbook.
\* save_ok tells whether _save_file can write under local_path.
NedrugOutcomes ==
    {[post |-> "raises", disposition |-> "absent", workbook |-> FALSE,
      rows |-> <<>>, save_ok |-> TRUE]}
    \cup {[post |-> "ok", disposition |-> d, workbook |-> FALSE,
           rows |-> <<>>, save_ok |-> TRUE] :
             d \in {"absent", "not_utf8", "ok"}}
    \cup {[post |-> "ok", disposition |-> "ok", workbook |-> TRUE,
           rows |-> rs, save_ok |-> TRUE] :
             rs \in NedrugSheets}
    \cup {[post |-> "ok", disposition |-> "ok", workbook |-> TRUE,
           rows |-> rs, save_ok |-> FALSE] :
             rs \in {q \in NedrugSheets : Len(q) > 1}}

\* a has_more that takes a sheet of page_size rows for a full page
HasMore_full(rows) == Len(rows) >= PageSize

\* `has_more = len(excel_data.rows) >= (self._page_size + 1)`
HasMore(rows) == Len(rows) >= PageSize + 1

\* the PageResult of the except branch of _download_page
FailedPage(page_num) == PageResult(page_num, <<>>, None, <<>>, FALSE)

\* a _download_page whose handler around _save_file keeps the page it parsed
download_page_kept(page_num, out, server_name) ==
    LET filename == get_filename([disposition |-> out.disposition,
                                  filename |-> server_name])
        medicines == convert_to_medicines(out.rows, page_num)
        final_filename ==
            generate_filename(server_name, page_num, Len(medicines))
        download_file ==
            [filename |-> final_filename, content |-> out.rows,
             file_type |-> detect_file_type(final_filename)]
        failed == [page_result |-> FailedPage(page_num), caught |-> TRUE,
                   write |-> <<>>]
    IN  IF out.post = "raises" \/ filename.raised
        THEN failed
        ELSE IF filename.value = None
        THEN [page_result |-> PageResult(page_num, <<>>, None, <<>>, FALSE),
              caught |-> FALSE, write |-> <<>>]
        ELSE IF ~out.workbook
        THEN failed
        ELSE IF Len(out.rows) <= 1
        THEN [page_result |->
                  PageResult(page_num, server_name, None, <<>>, FALSE),
              caught |-> FALSE, write |-> <<>>]
        ELSE IF ~out.save_ok
        THEN [page_result |->
                  PageResult(page_num, final_filename, None, medicines,
                             HasMore(out.rows)),
              caught |-> TRUE, write |-> <<>>]
        ELSE [page_result |->
                  PageResult(page_num, final_filename, download_file,
                             medicines, HasMore(out.rows)),
              caught |-> FALSE,
              write |-> <<[filename |-> final_filename,
                           content |-> out.rows]>>]

\* DownloadParser._download_page: the PageResult returned, whether the
\* except branch was taken, and the file written, if any (write is <<>> or
\* <<[filename, content]>>)
download_page(page_num, out, server_name) ==
    LET filename == get_filename([disposition |-> out.disposition,
                                  filename |-> server_name])
        medicines == convert_to_medicines(out.rows, page_num)
        final_filename ==
            generate_filename(server_name, page_num, Len(medicines))
        download_file ==
            [filename |-> final_filename, content |-> out.rows,
             file_type |-> detect_file_type(final_filename)]
        failed == [page_result |-> FailedPage(page_num), caught |-> TRUE,
                   write |-> <<>>]
    IN  IF out.post = "raises" \/ filename.raised
        THEN failed
        ELSE IF filename.value = None
        THEN [page_result |-> PageResult(page_num, <<>>, None, <<>>, FALSE),
              caught |-> FALSE, write |-> <<>>]
        ELSE IF ~out.workbook
        THEN failed
        ELSE IF Len(out.rows) <= 1
        THEN [page_result |->
                  PageResult(page_num, server_name, None, <<>>, FALSE),
              caught |-> FALSE, write |-> <<>>]
        ELSE IF ~out.save_ok
        THEN failed
        ELSE [page_result |->
                  PageResult(page_num, final_filename, download_file,
                             medicines, HasMore(out.rows)),
              caught |-> FALSE,
              write |-> <<[filename |-> final_filename,
                           content |-> out.rows]>>]

\* DownloadResult(medicines, page_results, total_pages)
DownloadResult(medicines, page_results, total_pages) ==
    [kind |-> "DownloadResult", medicines |-> medicines,
     page_results |-> page_results, total_pages |-> total_pages]

\* files after open(path, "wb").write(content) for each entry of write
WriteFiles(files, write) ==
    IF write = <<>> THEN files
    ELSE [f \in DOMAIN files \cup {write[1].filename} |->
             IF f = write[1].filename THEN write[1].content ELSE files[f]]

\* a fetch that keeps the medicines of the latest page only
ExtendMedicines_latest(all_medicines, page_result) == page_result.medicines

\* `all_medicines.extend(page_result.medicines)`
ExtendMedicines(all_medicines, page_result) ==
    all_medicines \o page_result.medicines

\* NedrugCrawler.download() -> DownloadParser.fetch up to the loop
NedrugDownload ==
    /\ n_pc = "idle" /\ h_pc = "idle" /\ h_trace = <<>>
    /\ n_pc' = "loop"
    /\ n_page_num' = 0
    /\ n_all_medicines' = <<>>
    /\ n_page_results' = <<>>
    /\ n_server_name' \in FilenameChoices
    /\ UNCHANGED <<n_result, n_files, n_trace, not_n_vars>>

\* one iteration of the while loop of DownloadParser.fetch
NedrugDownloadPage ==
    /\ n_pc = "loop"
    /\ n_page_num < MaxNedrugPages
    /\ \E out \in NedrugOutcomes :
        LET dl == download_page(n_page_num, out, n_server_name)
            page_result == dl.page_result
            empty == PageResult_is_empty(page_result)
            all_medicines == IF empty THEN n_all_medicines
                             ELSE ExtendMedicines(n_all_medicines,
                                                  page_result)
            page_results == IF empty THEN n_page_results
                            ELSE Append(n_page_results, page_result)
        IN  /\ n_trace' = Append(n_trace,
                  [page_num |-> n_page_num,
                   ExcelRowdata |-> DecimalText(n_page_num * PageSize),
                   excelSearchCnt |-> PageSize,
                   caught |-> dl.caught,
                   sheet_rows |-> Len(out.rows),
                   medicines |-> Len(page_result.medicines),
                   has_more |-> page_result.has_more])
            /\ n_files' = WriteFiles(n_files, dl.write)
            /\ n_all_medicines' = all_medicines
            /\ n_page_results' = page_results
            /\ IF empty \/ ~page_result.has_more
               THEN /\ n_pc' = "done"
                    /\ n_result' = DownloadResult(all_medicines, page_results,
                                                  n_page_num + 1)
                    /\ UNCHANGED n_page_num
               ELSE /\ n_page_num' = n_page_num + 1
                    /\ UNCHANGED <<n_pc, n_result>>
    /\ UNCHANGED <<n_server_name, not_n_vars>>

(***************************************************************************)
(* MedicineCsvWriter called on a list of medicines (specification SpecCsv). *)
(* A CSV file is modelled by the rows csv.reader gives back: the quoting   *)
(* the csv module adds and removes is not modelled.                        *)
(***************************************************************************)
MaxMedicines == 3   \* longest list handed to the writer

\* a health Medicine with the given name
HealthMedicine(name) == [parse_row(HealthFullTr) EXCEPT !.name = StrV(name)]

WriterNames == {<<>>, <<"A">>, <<"B", ",", "b">>}

\* the lists handed to the writer
RECURSIVE MedicineLists(_)
MedicineLists(n) ==
    IF n = 0 THEN {<<>>}
    ELSE LET shorter == MedicineLists(n - 1)
         IN  shorter \cup {Append(q, HealthMedicine(x)) :
                               q \in shorter, x \in WriterNames}

\* the rows `for index, medicine in enumerate(medicines, start)` writes
RECURSIVE save_rows(_, _)
save_rows(medicines, index) ==
    IF medicines = <<>> THEN <<>>
    ELSE << <<DecimalText(index), CsvField(Head(medicines).name)>> >>
         \o save_rows(Tail(medicines), index + 1)

\* a save that returns without writing when the list is empty, as save_full
save_guarded(csv, medicines) ==
    IF medicines = <<>> THEN csv
    ELSE [exists |-> TRUE,
          rows |-> << <<<<"id">>, <<"name">>>> >> \o save_rows(medicines, 1)]

\* MedicineCsvWriter.save: the file after the call (open(..., "w") truncates)
save(csv, medicines) ==
    [exists |-> TRUE,
     rows |-> << <<<<"id">>, <<"name">>>> >> \o save_rows(medicines, 1)]

InitCsv ==
    /\ RecIdle
    /\ NedrugIdle
    /\ \E csv \in {NoFile, OldFile} : HealthIdle(csv)
    /\ w_pc = "idle"
    /\ w_medicines \in MedicineLists(MaxMedicines)
    /\ HiraDownloadIdle
    /\ OpenDataIdle
    /\ NedrugParseIdle
    /\ HealthFetchIdle
    /\ DocumentIdle

\* writer.save(medicines)
CsvWriterSave ==
    /\ w_pc = "idle"
    /\ h_csv' = save(h_csv, w_medicines)
    /\ w_pc' = "save"
    /\ UNCHANGED <<w_medicines, h_pc, h_idx, h_page_num, h_medicines,
                   h_all_medicines, h_result, h_trace, not_hw_vars>>

\* writer.save_full(medicines)
CsvWriterSaveFull ==
    /\ w_pc = "idle"
    /\ h_csv' = save_full(h_csv, w_medicines)
    /\ w_pc' = "save_full"
    /\ UNCHANGED <<w_medicines, h_pc, h_idx, h_page_num, h_medicines,
                   h_all_medicines, h_result, h_trace, not_hw_vars>>

NextCsv ==
    \/ CsvWriterSave
    \/ CsvWriterSaveFull

SpecCsv == InitCsv /\ [][NextCsv]_vars

\* C11: after MedicineCsvWriter.save(medicines) the file holds the header
\* row ["id", "name"] and then one row per medicine, in input order, the
\* k-th being [k, medicines[k-1].name]; for the empty list, the header only.
C11_MinimalSchema ==
    w_pc = "save" =>
        /\ h_csv.exists
        /\ Len(h_csv.rows) = 1 + Len(w_medicines)
        /\ h_csv.rows[1] = <<<<"id">>, <<"name">>>>
        /\ \A k \in 1..Len(w_medicines) :
               h_csv.rows[k + 1] = <<DecimalText(k), w_medicines[k].name.text>>

\* three medicines with different names were saved over an older file
C11_Witness ==
    /\ w_pc = "save"
    /\ Len(w_medicines) = 3
    /\ w_medicines[1].name # w_medicines[2].name
    /\ w_medicines[2].name # w_medicines[3].name
    /\ Len(h_csv.rows) = 4

(***************************************************************************)
(* The crawlers: one process runs one crawler call at a time.              *)
(***************************************************************************)
Init ==
    /\ RecIdle
    /\ NedrugIdle
    /\ OthersIdle
    /\ \E csv \in {NoFile, OldFile} : HealthIdle(csv)

Next ==
    \/ HealthClientGet
    \/ HealthMedicines
    \/ HealthFetchPage
    \/ NedrugDownload
    \/ NedrugDownloadPage

Spec == Init /\ [][Next]_vars

(***************************************************************************)
(* Properties of the crawlers.                                             *)
(***************************************************************************)
\* positions of the events of kind ev in the health trace
EventsOf(ev) == {i \in 1..Len(h_trace) : h_trace[i].ev = ev}

\* the concatenation of the medicines of a sequence of page results
RECURSIVE FlattenPages(_)
FlattenPages(page_results) ==
    IF page_results = <<>> THEN <<>>
    ELSE Head(page_results).medicines \o FlattenPages(Tail(page_results))

\* C1: as soon as a health page parses to zero medicines the loop of
\* _fetch_by_initial ends and the function returns (fetch_all then finishes
\* its only initial); no page is requested after the empty one.
C1_EmptyPageEndsLoop ==
    \A i \in EventsOf("parse") :
        h_trace[i].n = 0 =>
            /\ h_pc = "done"
            /\ \A j \in EventsOf("post") : j < i

\* two pages with medicines, then an empty third page, and the call returned
C1_Witness ==
    /\ h_pc = "done"
    /\ \E i \in EventsOf("parse") : h_trace[i].n = 0 /\ h_trace[i].page = 3
    /\ Len(h_result.value) >= 2

\* C2: nedrug fetch goes on to page k+1 exactly when page k gave at least one
\* Medicine and its sheet had at least page_size + 1 rows; a page without
\* medicines ends pagination at once and is not appended to page_results.
C2_ContinuationRule ==
    \A i \in 1..Len(n_trace) :
        LET e == n_trace[i]
            goes_on == \/ i < Len(n_trace)
                       \/ n_pc = "loop" /\ n_page_num = e.page_num + 1
        IN  /\ goes_on <=> (e.medicines >= 1 /\ e.sheet_rows >= PageSize + 1)
            /\ i < Len(n_trace) => n_trace[i + 1].page_num = e.page_num + 1
            /\ e.medicines = 0 =>
                   /\ i = Len(n_trace)
                   /\ n_pc = "done"
                   /\ \A j \in 1..Len(n_page_results) :
                          n_page_results[j].page_num # e.page_num

\* a full first page is followed by a second request whose sheet has
\* page_size + 1 rows, all of them title rows: pagination ends there
C2_Witness ==
    /\ Len(n_trace) = 2
    /\ n_trace[1].medicines >= 1
    /\ n_trace[2].sheet_rows = PageSize + 1
    /\ n_trace[2].medicines = 0
    /\ n_pc = "done"
    /\ Len(n_page_results) = 1

\* the health run ended with an exception at the caller of medicines(): no
\* list was returned, the CSV writer was not called, the file is untouched
HealthRunFailed ==
    /\ h_pc = "raised"
    /\ h_result.kind = "exception"
    /\ EventsOf("save_full") = {}
    /\ h_csv \in {NoFile, OldFile}

\* C7 as stated: a page response whose status is not 2xx makes _post raise;
\* the exception reaches the caller of medicines(), the CSV writer is never
\* invoked and the medicines of earlier pages are not returned.
C7_Non2xxPropagates ==
    \A i \in EventsOf("response") :
        (h_trace[i].page >= 1 /\ ~(h_trace[i].n >= 200 /\ h_trace[i].n < 300))
            => HealthRunFailed

\* C7 as amended: the same for a page response with a 4xx or 5xx status.
C7_ErrorStatusPropagates ==
    \A i \in EventsOf("response") :
        (h_trace[i].page >= 1 /\ h_trace[i].n >= 400 /\ h_trace[i].n < 600)
            => HealthRunFailed

\* page 1 gave medicines, page 2 answered 500
C7_Witness ==
    /\ h_pc = "raised"
    /\ h_medicines # <<>>
    /\ h_csv = OldFile
    /\ \E i \in EventsOf("response") :
           h_trace[i].page = 2 /\ h_trace[i].n = 500

\* C8: an exception raised while downloading, parsing or saving page k is
\* caught in _download_page and becomes an empty PageResult with has_more
\* False; fetch ends pagination and returns, without raising, a
\* DownloadResult holding exactly the medicines of pages 0..k-1.
C8_PageErrorBoundary ==
    \A i \in 1..Len(n_trace) :
        n_trace[i].caught =>
            /\ n_trace[i].medicines = 0
            /\ ~n_trace[i].has_more
            /\ i = Len(n_trace)
            /\ n_pc = "done"
            /\ n_result.kind = "DownloadResult"
            /\ Len(n_page_results) = n_trace[i].page_num
            /\ \A j \in 1..Len(n_page_results) :
                   /\ n_page_results[j].page_num = j - 1
                   /\ Len(n_page_results[j].medicines) = n_trace[j].medicines
            /\ n_result.medicines = FlattenPages(n_page_results)
            /\ n_result.page_results = n_page_results

\* the second page has data rows but cannot be saved; the result holds the
\* medicines of the first page only
C8_Witness ==
    /\ Len(n_trace) = 2
    /\ n_trace[2].caught
    /\ n_trace[2].sheet_rows = PageSize + 1
    /\ n_pc = "done"
    /\ n_result.medicines = n_page_results[1].medicines
    /\ n_result.medicines # <<>>
    /\ DOMAIN n_files # {}

\* the positions of the POST events, in order
RECURSIVE PostPages(_)
PostPages(trace) ==
    IF trace = <<>> THEN <<>>
    ELSE (IF Head(trace).ev = "post" THEN <<Head(trace).page>> ELSE <<>>)
         \o PostPages(Tail(trace))

\* C9: one run of health _fetch_by_initial requests the pages 1, 2, ..., k and
\* one run of nedrug fetch the pages 0, 1, ..., k, each once and in
\* increasing order; a page that failed or came back empty is the last one
\* requested.
C9_PagesInOrderOnce ==
    /\ \A i \in 1..Len(PostPages(h_trace)) : PostPages(h_trace)[i] = i
    /\ \A i \in EventsOf("response") \cup EventsOf("parse") :
           (\/ h_trace[i].ev = "parse" /\ h_trace[i].n = 0
            \/ h_trace[i].ev = "response" /\ h_trace[i].page >= 1
                   /\ RaisesForStatus(h_trace[i].n))
               => \A j \in EventsOf("post") : j < i
    /\ h_pc = "raised" => h_page_num = Len(PostPages(h_trace))
    /\ \A i \in 1..Len(n_trace) :
           /\ n_trace[i].page_num = i - 1
           /\ n_trace[i].ExcelRowdata = DecimalText((i - 1) * PageSize)
           /\ n_trace[i].medicines = 0 => i = Len(n_trace)

\* a health run that requested three pages
C9_Witness ==
    /\ PostPages(h_trace) = <<1, 2, 3>>
    /\ h_pc = "raised"

\* C10: after a non-empty health page the loop sleeps wait_time exactly once
\* before the next request; after the empty page that ends the loop it does
\* not sleep; every _get and _post sleeps its rate limit right before the
\* HTTP request.
C10_FixedDelay ==
    /\ \A i \in EventsOf("parse") :
           IF h_trace[i].n > 0
           THEN /\ i + 1 <= Len(h_trace)
                /\ h_trace[i + 1] = Event("sleep", 0, DEFAULT_WAIT_TIME, <<>>)
                /\ i + 2 <= Len(h_trace) =>
                       /\ h_trace[i + 2].ev = "rate_limit"
                       /\ h_trace[i + 3].ev = "post"
                       /\ h_trace[i + 3].page = h_trace[i].page + 1
           ELSE \A j \in EventsOf("sleep") : j < i
    /\ Cardinality(EventsOf("sleep"))
           = Cardinality({i \in EventsOf("parse") : h_trace[i].n > 0})
    /\ \A i \in EventsOf("post") \cup EventsOf("get") :
           i > 1 /\ h_trace[i - 1].ev = "rate_limit"

\* a direct _get, then two pages with medicines and the empty page
C10_Witness ==
    /\ EventsOf("get") # {}
    /\ Cardinality(EventsOf("sleep")) = 2
    /\ \E i \in EventsOf("parse") : h_trace[i].n = 0
    /\ h_pc = "done"

\* C12: in the DownloadResult returned by nedrug fetch the ids of the
\* medicines are strictly increasing in list order (hence pairwise distinct),
\* whatever the sheets of the pages hold.
C12_IdsIncreasing ==
    n_pc = "done" =>
        \A i, j \in 1..Len(n_result.medicines) :
            i < j => n_result.medicines[i].id < n_result.medicines[j].id

\* C13: when fetch_all has returned, the page loop has run for every one of
\* the 14 initials of KOREAN_INITIALS, in list order.
C13_AllInitialsCovered ==
    h_pc = "done" =>
        /\ \A k \in 1..Len(KOREAN_INITIALS) :
               \E i \in EventsOf("post") :
                   h_trace[i].initial = quote(KOREAN_INITIALS[k])
        /\ \A i, j \in EventsOf("post") :
               i < j =>
                   \E a, b \in 1..Len(KOREAN_INITIALS) :
                       /\ a <= b
                       /\ h_trace[i].initial = quote(KOREAN_INITIALS[a])
                       /\ h_trace[j].initial = quote(KOREAN_INITIALS[b])

(***************************************************************************)
(* hira crawler (specification SpecHira): DownloadParser.fetch on the      *)
(* bulletin board, and the cache of OpenDataParser.                        *)
(* Texts that the code compares (dates, download codes) are sequences of   *)
(* single characters.                                                      *)
(***************************************************************************)
MaxBoardRows == 3   \* most tr elements of the board table
MaxFetches == 3     \* OpenDataParser.fetch calls in one run of the model

\* code point of a character of a compared text
CharCode(c) ==
    CASE c = "-" -> 45
      [] c = "0" -> 48 [] c = "1" -> 49 [] c = "2" -> 50 [] c = "3" -> 51
      [] c = "4" -> 52 [] c = "5" -> 53 [] c = "6" -> 54 [] c = "7" -> 55
      [] c = "8" -> 56 [] c = "9" -> 57
      [] OTHER -> 97

\* Python `a < b` on two str
RECURSIVE StrLess(_, _)
StrLess(a, b) ==
    IF b = <<>> THEN FALSE
    ELSE IF a = <<>> THEN TRUE
    ELSE IF CharCode(Head(a)) # CharCode(Head(b))
    THEN CharCode(Head(a)) < CharCode(Head(b))
    ELSE StrLess(Tail(a), Tail(b))

\* DownloadParser._parse_params(query_string).get(key): a query string is a
\* sequence of <<name, value>> pairs; parse_qs drops blank values, and the
\* comprehension unwraps a single value and keeps several as a list
parse_params_get(query, key) ==
    LET found == SelectSeq(query, LAMBDA p : p[1] = key /\ p[2] # <<>>)
    IN  IF found = <<>> THEN None
        ELSE IF Len(found) = 1 THEN StrV(found[1][2])
        ELSE [kind |-> "list", text |-> found[1][2], num |-> Len(found)]

\* BoardItem(title, brd_blt_no, date, file_type)
BoardItem(title, brd_blt_no, date, file_type) ==
    [title |-> title, brd_blt_no |-> brd_blt_no, date |-> date,
     file_type |-> file_type]

\* the loop of _parse_board_page on the tr elements of the board table
RECURSIVE parse_board_rows(_)
parse_board_rows(table_rows) ==
    IF table_rows = <<>> THEN <<>>
    ELSE LET r == Head(table_rows)
             td_texts == r.tds
             brd_blt_no == IF r.link # <<>>
                           THEN parse_params_get(r.link[1], "brdBltNo")
                           ELSE None
         IN  (IF Truthy(brd_blt_no)
              THEN <<BoardItem(
                        IF Len(td_texts) > 1 THEN td_texts[2] ELSE <<>>,
                        brd_blt_no,
                        IF Len(td_texts) > 4 THEN td_texts[5] ELSE <<>>,
                        IF r.file_type # <<>> THEN StrV(r.file_type[1])
                        ELSE None)>>
              ELSE <<>>)
             \o parse_board_rows(Tail(table_rows))

\* a max that keeps the last of the items with the greatest date
RECURSIVE MaxByDate_last(_, _)
MaxByDate_last(items, best) ==
    IF items = <<>> THEN best
    ELSE MaxByDate_last(Tail(items),
                        IF ~StrLess(Head(items).date, best.date)
                        THEN Head(items) ELSE best)

\* max(board_items, key=lambda x: x.date) continued from the item `best`:
\* max replaces its candidate only by a strictly greater one
RECURSIVE MaxByDate(_, _)
MaxByDate(items, best) ==
    IF items = <<>> THEN best
    ELSE MaxByDate(Tail(items),
                   IF StrLess(best.date, Head(items).date)
                   THEN Head(items) ELSE best)

\* DownloadParser._detect_file_type (hira)
hira_detect_file_type(filename) ==
    LET lower_name == Lower(filename)
    IN  IF EndsWith(lower_name, <<".xls", "x">>)
           \/ EndsWith(lower_name, <<".xls">>) THEN "excel"
        ELSE IF EndsWith(lower_name, <<".zip">>) THEN "zip"
        ELSE IF EndsWith(lower_name, <<".csv">>) THEN "csv"
        ELSE "unknown"

\* ExcelData(filename, rows, sheet_name, parsed_at)
ExcelData(filename, rows, parsed_at) ==
    [kind |-> "ExcelData", filename |-> filename, rows |-> rows,
     parsed_at |-> parsed_at]

\* request records of the hira client
HiraRequest(method, url, arg) == [method |-> method, url |-> url, arg |-> arg]

\* a _download_file that fails only when the request raises
hira_download_file_unnamed(out) ==
    IF out.download = "raises" THEN None
    ELSE [kind |-> "DownloadFile", filename |-> out.filename,
          content |-> out.sheet,
          file_type |-> hira_detect_file_type(out.filename)]

\* DownloadParser._download_file: the DownloadFile, or None when the request,
\* get_filename or _detect_file_type (on a None filename) raised
hira_download_file(out) ==
    LET filename == get_filename([disposition |-> out.disposition,
                                  filename |-> out.filename])
    IN  IF out.download = "raises" \/ filename.raised
           \/ filename.value = None
        THEN None
        ELSE [kind |-> "DownloadFile", filename |-> filename.value.text,
              content |-> out.sheet,
              file_type |-> hira_detect_file_type(filename.value.text)]

\* the board table rows tried: row i has 5 td with the date in the fifth, or
\* 2 td only; its title link is absent, carries no brdBltNo, or carries the
\* bulletin number "b<i>"
BoardDates == {<<"9">>, <<"1", "0">>}

BoardRow(i, date, link) ==
    [tds |-> IF date = <<>> THEN << <<Digit[i + 1]>>, <<"t">> >>
             ELSE << <<Digit[i + 1]>>, <<"t">>, <<"a">>, <<"f">>, date >>,
     link |-> CASE link = "none" -> <<>>
                [] link = "other" -> << << <<"pgmid", <<"H">> >> >> >>
                [] OTHER -> << << <<"pgmid", <<"H">> >>,
                                  <<"brdBltNo", <<"b", Digit[i + 1]>> >> >> >>,
     file_type |-> IF link = "item" THEN << <<"xlsx">> >> ELSE <<>>]

RECURSIVE BoardTables(_)
BoardTables(n) ==
    IF n = 0 THEN {<<>>}
    ELSE LET shorter == BoardTables(n - 1)
         IN  shorter
             \cup {Append(q, BoardRow(Len(q) + 1, date, link)) :
                      q \in {t \in shorter : Len(t) = n - 1},
                      date \in BoardDates \cup {<<>>},
                      link \in {"none", "other", "item"}}

\* what the server and the disk do during one fetch: the board request
\* raises, answers an empty document (lxml raises) or a page; the download
\* request raises or answers with or without a usable file name; the body
\* is a workbook or not; the file can be written or not
HiraOutcome(board, download, disposition, workbook, save_ok) ==
    [board |-> board, download |-> download, disposition |-> disposition,
     filename |-> <<"list", ".xls", "x">>, workbook |-> workbook,
     sheet |-> <<NedrugHeaderRow, NedrugDataRow>>, save_ok |-> save_ok]

HiraOutcomes ==
    {HiraOutcome("ok", "raises", "absent", FALSE, TRUE),
     HiraOutcome("ok", "ok", "absent", FALSE, TRUE),
     HiraOutcome("ok", "ok", "not_utf8", FALSE, TRUE),
     HiraOutcome("ok", "ok", "ok", FALSE, TRUE),
     HiraOutcome("ok", "ok", "ok", TRUE, FALSE),
     HiraOutcome("ok", "ok", "ok", TRUE, TRUE)}

HiraBoardFailures ==
    {HiraOutcome("raises", "raises", "absent", FALSE, TRUE),
     HiraOutcome("empty_doc", "raises", "absent", FALSE, TRUE)}

HiraException(type) == [kind |-> "exception", type |-> type]

\* the item fetch downloads: first maximal by date
latest_item(board_items) == MaxByDate(Tail(board_items), Head(board_items))

\* a fetch that saves the file before parsing it
hira_fetch_save_first(table_rows, out) ==
    LET board_get == HiraRequest("GET", "_START_URL_", None)
        board_items == parse_board_rows(table_rows)
        latest == latest_item(board_items)
        download_get == HiraRequest("GET", "_DOWNLOAD_BASE_URL_",
                                    latest.brd_blt_no)
        download_file == hira_download_file(out)
    IN  IF out.board = "raises"
        THEN [result |-> HiraException("RequestException"),
              requests |-> <<board_get>>, files |-> <<>>]
        ELSE IF out.board = "empty_doc"
        THEN [result |-> HiraException("ParserError"),
              requests |-> <<board_get>>, files |-> <<>>]
        ELSE IF board_items = <<>>
        THEN [result |-> None, requests |-> <<board_get>>, files |-> <<>>]
        ELSE IF download_file = None
        THEN [result |-> None, requests |-> <<board_get, download_get>>,
              files |-> <<>>]
        ELSE IF ~out.workbook
        THEN [result |-> HiraException("InvalidFileException"),
              requests |-> <<board_get, download_get>>,
              files |-> IF out.save_ok THEN <<download_file.filename>>
                        ELSE <<>>]
        ELSE IF ~out.save_ok
        THEN [result |-> HiraException("OSError"),
              requests |-> <<board_get, download_get>>, files |-> <<>>]
        ELSE [result |->
                 [kind |-> "DownloadResult",
                  filename |-> download_file.filename,
                  excel_data |-> ExcelData(download_file.filename,
                                           out.sheet, 0),
                  board_items |-> board_items],
              requests |-> <<board_get, download_get>>,
              files |-> <<download_file.filename>>]

\* DownloadParser.fetch (hira): the value returned or the exception raised,
\* the requests issued and the files written
hira_fetch(table_rows, out) ==
    LET board_get == HiraRequest("GET", "_START_URL_", None)
        board_items == parse_board_rows(table_rows)
        latest == latest_item(board_items)
        download_get == HiraRequest("GET", "_DOWNLOAD_BASE_URL_",
                                    latest.brd_blt_no)
        download_file == hira_download_file(out)
    IN  IF out.board = "raises"
        THEN [result |-> HiraException("RequestException"),
              requests |-> <<board_get>>, files |-> <<>>]
        ELSE IF out.board = "empty_doc"
        THEN [result |-> HiraException("ParserError"),
              requests |-> <<board_get>>, files |-> <<>>]
        ELSE IF board_items = <<>>
        THEN [result |-> None, requests |-> <<board_get>>, files |-> <<>>]
        ELSE IF download_file = None
        THEN [result |-> None, requests |-> <<board_get, download_get>>,
              files |-> <<>>]
        ELSE IF ~out.workbook
        THEN [result |-> HiraException("InvalidFileException"),
              requests |-> <<board_get, download_get>>, files |-> <<>>]
        ELSE IF ~out.save_ok
        THEN [result |-> HiraException("OSError"),
              requests |-> <<board_get, download_get>>, files |-> <<>>]
        ELSE [result |->
                 [kind |-> "DownloadResult",
                  filename |-> download_file.filename,
                  excel_data |-> ExcelData(download_file.filename,
                                           out.sheet, 0),
                  board_items |-> board_items],
              requests |-> <<board_get, download_get>>,
              files |-> <<download_file.filename>>]

\* HiraCrawler.download()
HiraDownload ==
    /\ d_pc = "idle"
    /\ o_last.call = "none"
    /\ \E table_rows \in BoardTables(MaxBoardRows),
          out \in HiraOutcomes \cup HiraBoardFailures :
        LET call == hira_fetch(table_rows, out)
        IN  /\ out \in HiraBoardFailures => table_rows = <<>>
            /\ d_rows' = table_rows
            /\ d_requests' = call.requests
            /\ d_result' = call.result
            /\ d_files' = call.files
            /\ d_out' = out
            /\ d_pc' = IF call.result.kind = "exception" THEN "raised"
                       ELSE "done"
    /\ UNCHANGED not_d_vars

\* names of the archive members; the prefixes stand for the Korean
\* HOSPITAL_FILE_PREFIX and PHARMACY_FILE_PREFIX
HOSPITAL_FILE_PREFIX == <<"1", ".", "H">>
PHARMACY_FILE_PREFIX == <<"2", ".", "P">>
HospitalFile == HOSPITAL_FILE_PREFIX \o <<" ", "2", "4", ".xls", "x">>
PharmacyFile == PHARMACY_FILE_PREFIX \o <<" ", "2", "4", ".xls", "x">>
ReadmeFile == <<"r", ".txt">>

\* onclicks.sort(reverse=True); onclicks[0]: the greatest code; among equal
\* codes any, they are the same str
RECURSIVE GreatestCode(_, _)
GreatestCode(codes, best) ==
    IF codes = <<>> THEN best
    ELSE GreatestCode(Tail(codes),
                      IF StrLess(best, Head(codes)) THEN Head(codes)
                      ELSE best)

\* a code lookup that takes the last link of the page
get_latest_download_code_last(out) ==
    IF out.page # "ok" \/ out.codes = <<>> THEN None
    ELSE StrV(out.codes[Len(out.codes)])

\* OpenDataParser._get_latest_download_code: None when the request or the
\* parsing raised or no link matched
get_latest_download_code(out) ==
    IF out.page # "ok" \/ out.codes = <<>> THEN None
    ELSE StrV(GreatestCode(Tail(out.codes), Head(out.codes)))

\* OpenDataParser._parse_service_file: None without a matching member, else
\* the ExcelData of the first match (opendata_fetch handles a workbook that
\* openpyxl cannot load)
parse_service_file(extracted_files, file_prefix, sheet, now) ==
    LET matching_files ==
            SelectSeq(extracted_files, LAMBDA f : Contains(f, file_prefix))
    IN  IF matching_files = <<>> THEN None
        ELSE ExcelData(matching_files[1], sheet, now)

\* what the server, the archive and the disk do during one OpenDataParser
\* fetch: the page request (page), the links found (codes), the download
\* (download, disposition), the archive (zip_ok, members), the workbooks of
\* the two service files (hospital_ok, pharmacy_ok) and their sheet
OpenDataOutcome(page, codes, download, disposition, zip_ok, members, hospital_ok, pharmacy_ok, sheet) ==
    [page |-> page, codes |-> codes, download |-> download,
     disposition |-> disposition, filename |-> <<"hira", ".zip">>,
     zip_ok |-> zip_ok, members |-> members, hospital_ok |-> hospital_ok,
     pharmacy_ok |-> pharmacy_ok, sheet |-> sheet]

Codes2 == << <<"9">>, <<"1", "0">> >>
HiraSheet == <<NedrugHeaderRow, NedrugDataRow>>

OpenDataOutcomes ==
    {OpenDataOutcome("raises", <<>>, "raises", "absent", FALSE, <<>>,
                     TRUE, TRUE, <<>>),
     OpenDataOutcome("ok", <<>>, "raises", "absent", FALSE, <<>>,
                     TRUE, TRUE, <<>>),
     OpenDataOutcome("ok", Codes2, "raises", "absent", FALSE, <<>>,
                     TRUE, TRUE, <<>>),
     OpenDataOutcome("ok", Codes2, "ok", "absent", FALSE, <<>>,
                     TRUE, TRUE, <<>>),
     OpenDataOutcome("ok", Codes2, "ok", "ok", FALSE, <<>>,
                     TRUE, TRUE, <<>>),
     OpenDataOutcome("ok", Codes2, "ok", "ok", TRUE, <<ReadmeFile>>,
                     TRUE, TRUE, HiraSheet),
     OpenDataOutcome("ok", Codes2, "ok", "ok", TRUE,
                     <<ReadmeFile, HospitalFile>>, TRUE, TRUE, HiraSheet),
     OpenDataOutcome("ok", Codes2, "ok", "ok", TRUE,
                     <<PharmacyFile>>, TRUE, TRUE, HiraSheet),
     OpenDataOutcome("ok", Codes2, "ok", "ok", TRUE,
                     <<HospitalFile, PharmacyFile>>, FALSE, TRUE, HiraSheet),
     OpenDataOutcome("ok", Codes2, "ok", "ok", TRUE,
                     <<HospitalFile, PharmacyFile>>, TRUE, FALSE, HiraSheet)}
    \cup {OpenDataOutcome("ok", Codes2, "ok", "ok", TRUE,
                          <<HospitalFile, ReadmeFile, PharmacyFile>>,
                          TRUE, TRUE, sheet) : sheet \in {<<>>, HiraSheet}}
    \cup {OpenDataOutcome("ok", <<Codes2[2], Codes2[1]>>, "ok", "ok", FALSE,
                          <<>>, TRUE, TRUE, <<>>)}

\* a fetch that empties the cache before it downloads
opendata_fetch_clearing(hospital_data, pharmacy_data, now, out) ==
    LET page_get == HiraRequest("GET", "_OPENDATA_START_URL_", None)
        download_code == get_latest_download_code(out)
        download_post == HiraRequest("POST", "_OPENDATA_DOWNLOAD_URL_",
                                     download_code)
        filename == get_filename([disposition |-> out.disposition,
                                  filename |-> out.filename])
        download_failed == \/ out.download = "raises"
                           \/ filename.raised
                           \/ filename.value = None
        new_hospital == parse_service_file(out.members, HOSPITAL_FILE_PREFIX,
                                           out.sheet, now)
        new_pharmacy == parse_service_file(out.members, PHARMACY_FILE_PREFIX,
                                           out.sheet, now)
        unchanged == [hospital_data |-> None,
                      pharmacy_data |-> None, raised |-> FALSE,
                      result |-> None, requests |-> <<page_get>>,
                      extractions |-> 0]
        both == <<page_get, download_post>>
    IN  IF download_code = None THEN unchanged
        ELSE IF download_failed
        THEN [unchanged EXCEPT !.requests = both]
        ELSE IF ~out.zip_ok
        THEN [unchanged EXCEPT !.requests = both, !.raised = TRUE,
                               !.result = HiraException("BadZipFile")]
        ELSE IF new_hospital # None /\ ~out.hospital_ok
        THEN [unchanged EXCEPT !.requests = both, !.raised = TRUE,
                               !.extractions = 1,
                               !.result =
                                   HiraException("InvalidFileException")]
        ELSE IF new_pharmacy # None /\ ~out.pharmacy_ok
        THEN [unchanged EXCEPT !.hospital_data = new_hospital,
                               !.requests = both, !.raised = TRUE,
                               !.extractions = 1,
                               !.result =
                                   HiraException("InvalidFileException")]
        ELSE [hospital_data |-> new_hospital, pharmacy_data |-> new_pharmacy,
              raised |-> FALSE,
              result |-> [kind |-> "OpenDataResult",
                          hospital_data |-> new_hospital,
                          pharmacy_data |-> new_pharmacy,
                          extracted_files |-> out.members],
              requests |-> both, extractions |-> 1]

\* OpenDataParser.fetch: the two cache fields after the call, the value
\* returned or the exception raised, the requests issued and the number of
\* archives extracted
opendata_fetch(hospital_data, pharmacy_data, now, out) ==
    LET page_get == HiraRequest("GET", "_OPENDATA_START_URL_", None)
        download_code == get_latest_download_code(out)
        download_post == HiraRequest("POST", "_OPENDATA_DOWNLOAD_URL_",
                                     download_code)
        filename == get_filename([disposition |-> out.disposition,
                                  filename |-> out.filename])
        download_failed == \/ out.download = "raises"
                           \/ filename.raised
                           \/ filename.value = None
        new_hospital == parse_service_file(out.members, HOSPITAL_FILE_PREFIX,
                                           out.sheet, now)
        new_pharmacy == parse_service_file(out.members, PHARMACY_FILE_PREFIX,
                                           out.sheet, now)
        unchanged == [hospital_data |-> hospital_data,
                      pharmacy_data |-> pharmacy_data, raised |-> FALSE,
                      result |-> None, requests |-> <<page_get>>,
                      extractions |-> 0]
        both == <<page_get, download_post>>
    IN  IF download_code = None THEN unchanged
        ELSE IF download_failed
        THEN [unchanged EXCEPT !.requests = both]
        ELSE IF ~out.zip_ok
        THEN [unchanged EXCEPT !.requests = both, !.raised = TRUE,
                               !.result = HiraException("BadZipFile")]
        ELSE IF new_hospital # None /\ ~out.hospital_ok
        THEN [unchanged EXCEPT !.requests = both, !.raised = TRUE,
                               !.extractions = 1,
                               !.result =
                                   HiraException("InvalidFileException")]
        ELSE IF new_pharmacy # None /\ ~out.pharmacy_ok
        THEN [unchanged EXCEPT !.hospital_data = new_hospital,
                               !.requests = both, !.raised = TRUE,
                               !.extractions = 1,
                               !.result =
                                   HiraException("InvalidFileException")]
        ELSE [hospital_data |-> new_hospital, pharmacy_data |-> new_pharmacy,
              raised |-> FALSE,
              result |-> [kind |-> "OpenDataResult",
                          hospital_data |-> new_hospital,
                          pharmacy_data |-> new_pharmacy,
                          extracted_files |-> out.members],
              requests |-> both, extractions |-> 1]

\* the pair a fetch parsed, when it returned with both service files
FetchedPair(call) ==
    IF ~call.raised /\ call.result # None
       /\ call.hospital_data # None /\ call.pharmacy_data # None
    THEN [kind |-> "pair", hospital_data |-> call.hospital_data,
          pharmacy_data |-> call.pharmacy_data]
    ELSE NoResult

\* a cache test that takes an ExcelData without rows for a missing one
CacheHit_rows(data) == data # None /\ data.rows # <<>>

\* `if self._hospital_data:` an ExcelData is a dataclass without __bool__ and
\* __len__, hence true whatever it holds; None is false
CacheHit(data) == data # None

\* HiraCrawler.opendata(): OpenDataParser.fetch(is_cleanup_files=False)
HiraOpendata ==
    /\ d_pc = "idle"
    /\ o_clock < MaxFetches
    /\ \E out \in OpenDataOutcomes :
        LET call == opendata_fetch(o_hospital_data, o_pharmacy_data,
                                   o_clock + 1, out)
        IN  /\ o_hospital_data' = call.hospital_data
            /\ o_pharmacy_data' = call.pharmacy_data
            /\ o_fetched' = FetchedPair(call)
            /\ o_last' = [call |-> "opendata", fetched |-> TRUE,
                          requests |-> call.requests,
                          extractions |-> call.extractions,
                          raised |-> call.raised, result |-> call.result,
                          before |-> o_fetched, out |-> out]
    /\ o_clock' = o_clock + 1
    /\ UNCHANGED not_o_vars

\* the body shared by hospitals() and pharmacies(): return the cached field
\* or fetch and return the field
CachedOrFetch(name, cached, field) ==
    IF CacheHit(cached)
    THEN /\ o_last' = [call |-> name, fetched |-> FALSE, requests |-> <<>>,
                       extractions |-> 0, raised |-> FALSE,
                       result |-> cached, before |-> o_fetched,
                       out |-> NoResult]
         /\ UNCHANGED <<o_hospital_data, o_pharmacy_data, o_clock, o_fetched>>
    ELSE /\ o_clock < MaxFetches
         /\ o_clock' = o_clock + 1
         /\ \E out \in OpenDataOutcomes :
             LET call == opendata_fetch(o_hospital_data, o_pharmacy_data,
                                        o_clock + 1, out)
             IN  /\ o_hospital_data' = call.hospital_data
                 /\ o_pharmacy_data' = call.pharmacy_data
                 /\ o_fetched' = FetchedPair(call)
                 /\ o_last' = [call |-> name, fetched |-> TRUE,
                               requests |-> call.requests,
                               extractions |-> call.extractions,
                               raised |-> call.raised,
                               result |-> IF call.raised THEN call.result
                                          ELSE call[field],
                               before |-> o_fetched, out |-> out]

\* HiraCrawler.hospitals()
HiraHospitals ==
    /\ d_pc = "idle"
    /\ CachedOrFetch("hospitals", o_hospital_data, "hospital_data")
    /\ UNCHANGED not_o_vars

\* HiraCrawler.pharmacies()
HiraPharmacies ==
    /\ d_pc = "idle"
    /\ CachedOrFetch("pharmacies", o_pharmacy_data, "pharmacy_data")
    /\ UNCHANGED not_o_vars

InitHira ==
    /\ RecIdle
    /\ NedrugIdle
    /\ HealthIdle(NoFile)
    /\ OthersIdle

NextHira ==
    \/ HiraDownload
    \/ HiraOpendata
    \/ HiraHospitals
    \/ HiraPharmacies

SpecHira == InitHira /\ [][NextHira]_vars

\* the rows of the board table whose title link has a brdBltNo parameter
ItemRows ==
    {i \in 1..Len(d_rows) :
        /\ d_rows[i].link # <<>>
        /\ \E k \in 1..Len(d_rows[i].link[1]) :
               d_rows[i].link[1][k][1] = "brdBltNo"}

\* the text of the fifth td of row i, "" when the row is shorter
RowDate(i) == IF Len(d_rows[i].tds) > 4 THEN d_rows[i].tds[5] ELSE <<>>

\* the value of the brdBltNo parameter of row i
RowBltNo(i) ==
    LET q == d_rows[i].link[1]
    IN  q[CHOOSE k \in 1..Len(q) : q[k][1] = "brdBltNo"][2]

\* C14: the download request of hira fetch asks for the bulletin number of
\* a row with a brdBltNo link whose date is maximal, in string order, among
\* such rows, and is the first of them with that date; rows without a
\* brdBltNo link never become board items.
C14_LatestItemDownloaded ==
    /\ Len(d_requests) >= 2 =>
           \E i \in ItemRows :
               /\ d_requests[2].arg = StrV(RowBltNo(i))
               /\ \A j \in ItemRows :
                      /\ ~StrLess(RowDate(i), RowDate(j))
                      /\ RowDate(j) = RowDate(i) => i <= j
    /\ ItemRows = {} => Len(d_requests) <= 1
    /\ d_result.kind = "DownloadResult" =>
           /\ Len(d_result.board_items) = Cardinality(ItemRows)
           /\ \A k \in 1..Len(d_result.board_items) :
                  \E i \in ItemRows :
                      /\ d_result.board_items[k].brd_blt_no
                             = StrV(RowBltNo(i))
                      /\ d_result.board_items[k].date = RowDate(i)

\* three items dated "10", "9", "9": the second, the first of the two
\* greatest in string order, is the one downloaded
C14_Witness ==
    /\ d_result.kind = "DownloadResult"
    /\ Len(d_result.board_items) = 3
    /\ d_result.board_items[1].date = <<"1", "0">>
    /\ d_result.board_items[2].date = <<"9">>
    /\ d_result.board_items[3].date = <<"9">>
    /\ d_requests[2].arg = d_result.board_items[2].brd_blt_no
    /\ d_files # <<>>

\* C15: once a fetch has returned with both service files parsed, every
\* hospitals() and pharmacies() call returns the ExcelData of that fetch,
\* issues no HTTP request, extracts nothing, and leaves the cache as it is.
C15_CacheServesCalls ==
    (o_last.call \in {"hospitals", "pharmacies"}
         /\ o_last.before # NoResult) =>
        /\ ~o_last.fetched
        /\ o_last.requests = <<>>
        /\ o_last.extractions = 0
        /\ ~o_last.raised
        /\ o_last.result = IF o_last.call = "hospitals"
                           THEN o_last.before.hospital_data
                           ELSE o_last.before.pharmacy_data
        /\ o_fetched = o_last.before
        /\ o_hospital_data = o_last.before.hospital_data
        /\ o_pharmacy_data = o_last.before.pharmacy_data

\* the second fetch of the run found both files, with sheets without rows;
\* pharmacies() is then served from the cache
C15_Witness ==
    /\ o_last.call = "pharmacies"
    /\ o_last.before # NoResult
    /\ o_last.result.kind = "ExcelData"
    /\ o_last.result.rows = <<>>
    /\ o_last.result.parsed_at = 2
    /\ o_clock = 2

(***************************************************************************)
(* nedrug crawler: ExcelParser.parse on the spreadsheets of ./data         *)
(* (specification SpecParse).                                              *)
(***************************************************************************)
MaxFiles == 3   \* most matching files in ./data

\* the sheets tried: no row, the title row alone, title and data rows, data
\* rows alone, a title row between data rows
ParseSheets ==
    {<<>>, <<NedrugHeaderRow>>, <<NedrugHeaderRow, NedrugDataRow>>,
     <<NedrugDataRow, NedrugDataRow>>,
     <<NedrugDataRow, NedrugHeaderRow, NedrugDataRow>>}

\* the directory contents tried: the sheets of the files glob yields
RECURSIVE SheetLists(_)
SheetLists(n) ==
    IF n = 0 THEN {<<>>}
    ELSE LET shorter == SheetLists(n - 1)
         IN  shorter \cup {Append(q, sh) : q \in shorter, sh \in ParseSheets}

\* os.path.join(file_path, file.name) of the i-th file
ParseFilename(i) == <<"./data", "/", "f", Digit[i + 1], ".xls", "x">>

\* ExcelParser.parse from the file numbered page_num on (page_num starts at
\* 1 and is incremented once per file, so it is also the position in the
\* glob).  In the branch of a file with at most one row the arguments of
\* PageResult(...) name decoded_filename, which is defined nowhere: the
\* evaluation raises NameError.
RECURSIVE excel_parse(_, _, _, _)
excel_parse(files, page_num, all_medicines, page_results) ==
    IF page_num > Len(files)
    THEN DownloadResult(all_medicines, page_results, page_num + 1)
    ELSE LET rows == files[page_num]
             medicines == ConvertFrom(rows, 0, page_num * Len(rows))
         IN  IF Len(rows) <= 1
             THEN [kind |-> "exception", type |-> "NameError"]
             ELSE excel_parse(
                      files, page_num + 1, all_medicines \o medicines,
                      Append(page_results,
                             PageResult(page_num, ParseFilename(page_num),
                                        None, medicines, FALSE)))

InitParse ==
    /\ RecIdle
    /\ NedrugIdle
    /\ HealthIdle(NoFile)
    /\ CsvWriterIdle
    /\ HiraDownloadIdle
    /\ OpenDataIdle
    /\ HealthFetchIdle
    /\ DocumentIdle
    /\ x_pc = "idle"
    /\ x_files \in SheetLists(MaxFiles)
    /\ x_result = NoResult

\* NedrugCrawler.parse()
NedrugParse ==
    /\ x_pc = "idle"
    /\ x_result' = excel_parse(x_files, 1, <<>>, <<>>)
    /\ x_pc' = IF x_result'.kind = "exception" THEN "raised" ELSE "done"
    /\ UNCHANGED <<x_files, not_x_vars>>

NextParse == NedrugParse

SpecParse == InitParse /\ [][NextParse]_vars

\* the rows of a sheet that are not title rows
DataRowsOf(rows) == SelectSeq(rows, LAMBDA r : ~is_header_row(r))

\* the data rows of a list of sheets, in order
RECURSIVE DataRowsOfAll(_)
DataRowsOfAll(files) ==
    IF files = <<>> THEN <<>>
    ELSE DataRowsOf(Head(files)) \o DataRowsOfAll(Tail(files))

\* C16: NedrugCrawler.parse() returns, without raising, an object whose
\* medicines are one Medicine per non-title row of the files, in order,
\* whatever the files hold, a file of at most one row included.
C16_ParseCompletes ==
    x_pc # "idle" =>
        /\ x_pc = "done"
        /\ x_result.kind = "DownloadResult"
        /\ Len(x_result.medicines) = Len(DataRowsOfAll(x_files))
        /\ \A k \in 1..Len(x_result.medicines) :
               x_result.medicines[k].product_name
                   = DataRowsOfAll(x_files)[k][2]

\* C17: the total_pages of the DownloadResult returned by nedrug fetch is
\* the number of entries of page_results (0 when the first page is empty).
C17_TotalPagesIsPageCount ==
    n_pc = "done" => n_result.total_pages = Len(n_result.page_results)

\* C18: at every iteration of nedrug fetch and in its result, medicines is
\* the concatenation in page order of the medicines of page_results, whose
\* entries are all non-empty and numbered 0, 1, ..., len(page_results) - 1.
C18_Accumulation ==
    /\ n_all_medicines = FlattenPages(n_page_results)
    /\ \A j \in 1..Len(n_page_results) :
           /\ n_page_results[j].medicines # <<>>
           /\ n_page_results[j].page_num = j - 1
    /\ n_pc = "done" =>
           /\ n_result.medicines = n_all_medicines
           /\ n_result.page_results = n_page_results

\* two pages were kept and the third request, an empty page, ended the run
C18_Witness ==
    /\ n_pc = "done"
    /\ Len(n_result.page_results) = 2
    /\ Len(n_trace) = 3
    /\ Len(n_result.medicines) > Len(n_result.page_results[1].medicines)

\* the file names of the pages saved so far, in page order
SavedNames == [j \in 1..Len(n_page_results) |-> n_page_results[j].filename]

\* C19: within one nedrug fetch the pages are saved under pairwise distinct
\* file names, whatever name the server gives and however many rows the
\* pages have.
C19_DistinctFilenames ==
    \A i, j \in 1..Len(n_page_results) :
        i # j => SavedNames[i] # SavedNames[j]

\* ---------------------------------------------------------------------
\* health: DownloadParser.fetch() and DownloadParser.parse()
\* ---------------------------------------------------------------------

MaxFetchPages == 2  \* result pages with rows the site has for an initial
MaxFetchRows == 1   \* data rows of one result page

\* the request body parse() posts.  The dict built from the arguments and
\* the f-string built from them are both overwritten by a string literal
\* before the request: req_page=1&listup=1000&search_drugnm_initial=
\* %E3%84%B1 followed by the fixed remaining fields
parse_payload(page_num, page_size, initial) ==
    [req_page |-> <<"1">>,
     listup |-> <<"1", "0", "0", "0">>,
     search_drugnm_initial |->
         <<"%", "E", "3", "%", "8", "4", "%", "B", "1">>]

\* the column names parse() zips the cells of a row with
parse_columns ==
    <<"name", "code", "ingredient", "effect", "company", "category", "form",
      "expert", "insurance", "bioequiv", "image">>

\* list.insert(1, x) on a list: at position 1, or at the end of a shorter
\* list
InsertAt1(cells, x) ==
    IF cells = <<>> THEN <<x>>
    ELSE <<Head(cells), x>> \o Tail(cells)

\* the body of the row loop of parse() for one tr: the row is skipped
\* (it has a th), the statement raises IndexError (td_texts.pop(0) on a row
\* without td, img_src[0] on a row without picture), or a dict is appended
parse_table_row(r) ==
    IF r.ths # <<>> THEN [kind |-> "skip"]
    ELSE IF r.tds = <<>> \/ r.img_srcs = <<>>
    THEN [kind |-> "raise", type |-> "IndexError"]
    ELSE LET td_texts == [i \in 1..Len(r.tds) |-> StrV(Strip(r.tds[i]))]
             medicine_code ==
                 IF FirstMatch(r.idfy) # None THEN FirstMatch(r.idfy)
                 ELSE FirstMatch(r.detail)
             image == IF r.img_srcs[1] # EMPTY_IMAGE_PATH
                      THEN StrV(r.img_srcs[1]) ELSE None
             cells == InsertAt1(Tail(td_texts), medicine_code) \o <<image>>
         IN  [kind |-> "row", data |-> DictZip(parse_columns, cells)]

\* the row loop of parse() over the tr elements of the table
RECURSIVE parse_table_rows(_)
parse_table_rows(table_rows) ==
    IF table_rows = <<>> THEN [raised |-> FALSE, rows |-> <<>>]
    ELSE LET first == parse_table_row(Head(table_rows))
             rest == parse_table_rows(Tail(table_rows))
         IN  IF first.kind = "raise" THEN [raised |-> TRUE, rows |-> <<>>]
             ELSE IF first.kind = "skip" THEN rest
             ELSE IF rest.raised THEN rest
             ELSE [raised |-> FALSE, rows |-> <<first.data>> \o rest.rows]

\* DownloadParser.parse(page_num, initial): the body sent, and the rows
\* returned unless the call raised (no response, an error status, an empty
\* document, a row that cannot be read)
parse(page_num, initial, out) ==
    LET payload == parse_payload(page_num, DEFAULT_PAGE_SIZE, initial)
        parsed == parse_table_rows(out.rows)
        failed == \/ out.kind # "response"
                  \/ RaisesForStatus(out.status)
                  \/ out.empty_doc
                  \/ parsed.raised
    IN  [sent |-> [page_num |-> page_num, initial |-> initial,
                   req_page |-> payload.req_page,
                   listup |-> payload.listup,
                   search_drugnm_initial |-> payload.search_drugnm_initial],
         raised |-> failed,
         rows |-> IF failed THEN <<>> ELSE parsed.rows]

\* the exit test of an exit on every empty page
FetchExit_any(rows, initial_num) == Len(rows) = 0

\* fetch(): len(rows) == 0 and initial_num >= len(KOREAN_INITIALS)
FetchExit(rows, initial_num) ==
    Len(rows) = 0 /\ initial_num >= Len(KOREAN_INITIALS)

\* DownloadParser._save_to_csv: the file after the call
save_to_csv(data) ==
    [exists |-> TRUE,
     rows |-> << <<<<"id">>, <<"name">>>> >>
              \o [k \in 1..Len(data) |->
                     <<DecimalText(k),
                       CsvField(DictGet(data[k], "name", None))>>]]

\* the tr elements of a result table: no row, a row without picture, the
\* header alone, the header and up to MaxFetchRows full rows
FetchPages ==
    {<<>>, <<HealthShortTr>>}
    \cup {<<HealthHeaderTr>> \o Repeat(HealthFullTr, k) :
              k \in 0..MaxFetchRows}

\* what the POST of parse() can bring back
FetchOutcomes ==
    {[kind |-> "exception", status |-> 0, empty_doc |-> TRUE, rows |-> <<>>],
     [kind |-> "response", status |-> 500, empty_doc |-> TRUE, rows |-> <<>>],
     [kind |-> "response", status |-> 200, empty_doc |-> TRUE, rows |-> <<>>]}
    \cup {[kind |-> "response", status |-> 200, empty_doc |-> FALSE,
           rows |-> rs] : rs \in FetchPages}

InitFetch ==
    /\ RecIdle
    /\ NedrugIdle
    /\ HealthIdle(NoFile)
    /\ CsvWriterIdle
    /\ HiraDownloadIdle
    /\ OpenDataIdle
    /\ NedrugParseIdle
    /\ HealthFetchIdle
    /\ DocumentIdle

\* DownloadParser.fetch() is called: the statements before the loop
HealthFetchStart ==
    /\ f_pc = "idle"
    /\ f_pc' = "loop"
    /\ f_initial_num' = 1
    /\ f_page_num' = 1
    /\ f_total_rows' = <<>>
    /\ UNCHANGED <<f_last, f_reads, f_csv, not_f_vars>>

\* one iteration of the loop of fetch(); the site serves pages with rows
\* only up to page MaxFetchPages of an initial.  Reading KOREAN_INITIALS
\* past its end raises IndexError.
HealthFetchStep ==
    /\ f_pc = "loop"
    /\ f_reads' = f_reads \cup {f_initial_num}
    /\ IF f_initial_num - 1 >= Len(KOREAN_INITIALS)
       THEN /\ f_pc' = "raised"
            /\ UNCHANGED <<f_initial_num, f_page_num, f_total_rows, f_last,
                           f_csv>>
       ELSE \E out \in FetchOutcomes :
            /\ f_page_num > MaxFetchPages =>
                   parse_table_rows(out.rows).rows = <<>>
            /\ LET encoded_string == quote(KOREAN_INITIALS[f_initial_num])
                   res == parse(f_page_num, encoded_string, out)
                   rows == res.rows
               IN  /\ f_last' = res.sent @@ [returned |-> Len(rows)]
                   /\ IF res.raised
                      THEN /\ f_pc' = "raised"
                           /\ UNCHANGED <<f_initial_num, f_page_num,
                                          f_total_rows, f_csv>>
                      ELSE IF FetchExit(rows, f_initial_num)
                      THEN /\ f_csv' = save_to_csv(f_total_rows)
                           /\ f_pc' = "done"
                           /\ UNCHANGED <<f_initial_num, f_page_num,
                                          f_total_rows>>
                      ELSE /\ f_total_rows' = f_total_rows \o rows
                           /\ IF Len(rows) > 0
                              THEN /\ f_page_num' = f_page_num + 1
                                   /\ UNCHANGED f_initial_num
                              ELSE IF Len(KOREAN_INITIALS) >= f_initial_num
                              THEN /\ f_initial_num' = f_initial_num + 1
                                   /\ f_page_num' = 1
                              ELSE UNCHANGED <<f_initial_num, f_page_num>>
                           /\ f_pc' = "loop"
                           /\ UNCHANGED f_csv
    /\ UNCHANGED not_f_vars

NextFetch ==
    \/ HealthFetchStart
    \/ HealthFetchStep

SpecFetch == InitFetch /\ [][NextFetch]_vars

\* C20: every request parse(page_num, initial) sends carries req_page equal
\* to page_num and search_drugnm_initial equal to initial, so each iteration
\* of fetch() asks for the page and the initial it has advanced to.
C20_ParseSendsArguments ==
    f_last # NoParse =>
        /\ f_last.req_page = DecimalText(f_last.page_num)
        /\ f_last.search_drugnm_initial = f_last.initial

\* C21: in fetch() every read of KOREAN_INITIALS is at an index
\* initial_num - 1 with 1 <= initial_num <= len(KOREAN_INITIALS), page_num
\* is at least 1, an iteration sets page_num back to 1 exactly when it
\* adds one to initial_num (otherwise it keeps page_num or adds one to
\* it), and fetch returns, writing the CSV of the rows gathered, only on
\* an empty page received while initial_num is len(KOREAN_INITIALS).
C21_FetchBounds ==
    /\ [](/\ f_reads \subseteq 1..Len(KOREAN_INITIALS)
          /\ f_initial_num \in 1..Len(KOREAN_INITIALS)
          /\ f_page_num >= 1)
    /\ [][f_pc = "loop" =>
            /\ f_initial_num' # f_initial_num =>
                   /\ f_initial_num' = f_initial_num + 1
                   /\ f_page_num' = 1
                   /\ f_last'.returned = 0
            /\ f_initial_num' = f_initial_num =>
                   f_page_num' \in {f_page_num, f_page_num + 1}
            /\ f_page_num' = f_page_num + 1 => f_last'.returned > 0
            /\ f_pc' = "done" =>
                   /\ f_last'.returned = 0
                   /\ f_last'.page_num = f_page_num
                   /\ f_initial_num = Len(KOREAN_INITIALS)
                   /\ f_csv' = save_to_csv(f_total_rows)
            /\ f_pc' # "done" => f_csv' = f_csv]_vars

\* fetch went through all the initials, gathered rows and returned
C21_Witness ==
    /\ f_pc = "done"
    /\ f_reads = 1..Len(KOREAN_INITIALS)
    /\ Len(f_total_rows) > 1
    /\ f_csv.exists

\* ---------------------------------------------------------------------
\* parsers and exporters applied to one document (specification SpecDoc)
\* ---------------------------------------------------------------------

MaxTableRows == 3   \* most tr elements of a table tried

\* tr elements: a header row, a row with a th and td cells, a row without
\* any cell, a row with a single td, a row of three td whose second is
\* padded with blanks, a row of two td with a name of its own
TableTrs ==
    {HealthHeaderTr,
     MkTr(1, 2, FALSE, <<>>, <<>>, <<>>),
     MkTr(0, 0, FALSE, <<>>, <<>>, <<>>),
     HealthShortTr,
     MkTr(0, 3, TRUE, <<None>>, <<StrV(<<"B", "2">>)>>, << <<"/img/1.jpg">> >>),
     [MkTr(0, 2, FALSE, <<>>, <<>>, <<>>) EXCEPT !.tds[2] = <<"n", "2">>]}

\* the tables of at most n rows
Tables(n) == UNION {[1..k -> TableTrs] : k \in 0..n}

MaxSheetRows == 3   \* most rows of a sheet tried

\* stand-in for the header keyword of the hira sheets (the title of the
\* encrypted institution code column)
HIRA_HEADER_KEYWORD == <<"E", "K">>

\* sheet rows of 11 cells that name their position: one with the keyword in
\* its first cell, two with a name of their own in the second cell
SheetRows ==
    {MkRow(11, 1, StrV(<<"(", "E", "K", ")">>)),
     MkRow(11, 2, StrV(<<"A">>)),
     MkRow(11, 2, StrV(<<"B">>))}

\* the sheets of at most n rows
Sheets(n) == UNION {[1..k -> SheetRows] : k \in 0..n}

\* ExcelParser._row_contains_string and OpenDataParser._is_header_row: some
\* cell is a non-empty str that contains the keyword
row_contains_string(r, search_string) ==
    \E i \in 1..Len(r) :
        Truthy(r[i]) /\ r[i].kind = "str"
        /\ Contains(r[i].text, search_string)

\* the loop of get_hospitals over enumerate(data_rows, start=idx)
RECURSIVE HospitalsFrom(_, _)
HospitalsFrom(data_rows, idx) ==
    IF data_rows = <<>> THEN <<>>
    ELSE (IF row_contains_string(Head(data_rows), HIRA_HEADER_KEYWORD)
          THEN <<>>
          ELSE <<Hospital_from_tuple(Head(data_rows), HOSPITAL_COLUMNS, idx)>>)
         \o HospitalsFrom(Tail(data_rows), idx + 1)

\* OpenDataParser.get_hospitals on a result whose hospital_data has the
\* given rows: [] for an empty sheet, else the loop over get_data_rows()
get_hospitals(rows) ==
    IF rows = <<>> THEN <<>>
    ELSE HospitalsFrom(IF Len(rows) > 1 THEN Tail(rows) ELSE <<>>, 1)

\* what csv.writer writes for a cell: a str as it is, an int in decimal,
\* None as the empty field
CsvCell(v) == IF v.kind = "int" THEN DecimalText(v.num) ELSE CsvField(v)

\* row[i] if len(row) > i else ""   (i counts from 0)
CellAt(r, i) == IF Len(r) > i THEN CsvCell(r[i + 1]) ELSE <<>>

\* ExcelParser.save_to_csv (hira): the rows of the file written; columns is
\* a list of names (<<>> for None), skip_header_keyword a text (<<>> for
\* None)
excel_save_to_csv(rows, columns, skip_header_keyword) ==
    LET written ==
            SelectSeq(rows, LAMBDA r :
                ~(skip_header_keyword # <<>>
                  /\ row_contains_string(r, skip_header_keyword)))
    IN  (IF columns # <<>> THEN <<columns>> ELSE <<>>)
        \o [index \in 1..Len(written) |->
               IF columns # <<>> /\ Len(columns) = 3
               THEN <<DecimalText(index), CellAt(written[index], 5),
                      CellAt(written[index], 6)>>
               ELSE [i \in 1..Len(written[index]) |->
                        CsvCell(written[index][i])]]

InitDoc ==
    /\ RecIdle
    /\ NedrugIdle
    /\ HealthIdle(NoFile)
    /\ CsvWriterIdle
    /\ HiraDownloadIdle
    /\ OpenDataIdle
    /\ NedrugParseIdle
    /\ HealthFetchIdle
    /\ p_fn = "none"
    /\ p_out = None
    /\ \/ p_kind = "table" /\ p_in \in Tables(MaxTableRows)
       \/ p_kind = "sheet" /\ p_in \in Sheets(MaxSheetRows)

\* MedicineTableParser.parse on a document whose table has the rows p_in
TableParse ==
    /\ p_kind = "table" /\ p_fn = "none"
    /\ p_fn' = "table_parse"
    /\ p_out' = MedicineTableParser_parse(p_in)
    /\ UNCHANGED <<p_kind, p_in, not_p_vars>>

\* OpenDataParser.get_hospitals(result) with the default columns
GetHospitals ==
    /\ p_kind = "sheet" /\ p_fn = "none"
    /\ p_fn' = "get_hospitals"
    /\ p_out' = get_hospitals(p_in)
    /\ UNCHANGED <<p_kind, p_in, not_p_vars>>

\* ExcelParser.save_to_csv(excel_data, file_path, columns,
\* skip_header_keyword) of the hira crawler
ExcelSaveToCsv ==
    /\ p_kind = "sheet" /\ p_fn = "none"
    /\ p_fn' = "save_to_csv"
    /\ \E columns \in {<<>>, << <<"id">>, <<"name">>, <<"address">> >>},
          skip \in {<<>>, HIRA_HEADER_KEYWORD} :
           p_out' = [columns |-> columns, skip_header_keyword |-> skip,
                     rows |-> excel_save_to_csv(p_in, columns, skip)]
    /\ UNCHANGED <<p_kind, p_in, not_p_vars>>

NextDoc ==
    \/ TableParse
    \/ GetHospitals
    \/ ExcelSaveToCsv

SpecDoc == InitDoc /\ [][NextDoc]_vars

\* the rows of a table without th and with at least one td
RecordTrs(table_rows) ==
    SelectSeq(table_rows, LAMBDA r : r.ths = <<>> /\ r.tds # <<>>)

\* C22: MedicineTableParser.parse returns one Medicine, in document order,
\* for each row without th and with at least one td, and none for the other
\* rows; the name of each is the text of the second td of its row, the
\* empty string when the row has a single td.
C22_TableParse ==
    p_fn = "table_parse" =>
        /\ Len(p_out) = Len(RecordTrs(p_in))
        /\ \A k \in 1..Len(p_out) :
               p_out[k].name =
                   IF Len(RecordTrs(p_in)[k].tds) >= 2
                   THEN StrV(Strip(RecordTrs(p_in)[k].tds[2]))
                   ELSE EmptyStr

\* a table with a skipped row, then a single-td row, then a named row
C22_Witness ==
    /\ p_fn = "table_parse"
    /\ Len(p_in) = 3
    /\ p_in[1].ths # <<>>
    /\ Len(p_in[2].tds) = 1
    /\ Len(p_out) = 2
    /\ p_out[1].name = EmptyStr
    /\ p_out[2].name = StrV(<<"n", "2">>)

\* C23: when the board page is read and yields no board item, or the
\* download request raises, or the response names no file in
\* Content-Disposition, hira fetch returns None without raising and no file
\* is written under local_path.
C23_FailureYieldsNone ==
    (/\ d_pc # "idle"
     /\ d_out.board = "ok"
     /\ \/ parse_board_rows(d_rows) = <<>>
        \/ d_out.download = "raises"
        \/ d_out.disposition = "absent")
    => /\ d_pc = "done"
       /\ d_result = None
       /\ d_files = <<>>

\* a board item was found and its download answered without a file name
C23_Witness ==
    /\ d_pc = "done"
    /\ parse_board_rows(d_rows) # <<>>
    /\ d_out.download = "ok"
    /\ d_out.disposition = "absent"
    /\ Len(d_requests) = 2
    /\ d_result = None

OpenDataDownloadFailed(out) ==
    \/ out.page = "raises"
    \/ out.codes = <<>>
    \/ out.download = "raises"
    \/ out.disposition # "ok"

\* C25: a call that runs OpenDataParser.fetch while the download of the
\* archive fails extracts nothing, does not raise and leaves _hospital_data
\* and _pharmacy_data as they were; fetch returns None, hospitals() and
\* pharmacies() return the field as it was before the call.
C25_FailedFetchKeepsCache ==
    [][(o_clock' = o_clock + 1 /\ OpenDataDownloadFailed(o_last'.out)) =>
          /\ o_hospital_data' = o_hospital_data
          /\ o_pharmacy_data' = o_pharmacy_data
          /\ o_last'.extractions = 0
          /\ ~o_last'.raised
          /\ o_last'.result =
                 CASE o_last'.call = "hospitals" -> o_hospital_data
                   [] o_last'.call = "pharmacies" -> o_pharmacy_data
                   [] OTHER -> None]_vars

\* opendata() failed to download while a hospital sheet was cached
C25_Witness ==
    /\ o_last.call = "opendata"
    /\ o_last.fetched
    /\ o_last.out.download = "raises"
    /\ o_last.out.codes # <<>>
    /\ o_hospital_data # None
    /\ o_last.result = None

\* C26: the code a fetch downloads with is the greatest, in string order, of
\* the codes of the fn_fileDown links of the page; without a matching link,
\* or when the page request or its parsing raises, the lookup gives None
\* without raising: no download is requested and fetch returns None.
C26_LatestDownloadCode ==
    o_last.fetched =>
        IF o_last.out.page = "ok" /\ o_last.out.codes # <<>>
        THEN /\ Len(o_last.requests) = 2
             /\ o_last.requests[2].arg.kind = "str"
             /\ \E i \in 1..Len(o_last.out.codes) :
                    o_last.requests[2].arg.text = o_last.out.codes[i]
             /\ \A i \in 1..Len(o_last.out.codes) :
                    ~StrLess(o_last.requests[2].arg.text, o_last.out.codes[i])
        ELSE /\ Len(o_last.requests) = 1
             /\ ~o_last.raised
             /\ o_last.extractions = 0

\* the page listed "10" before "9" and the download asked for "9"
C26_Witness ==
    /\ o_last.fetched
    /\ o_last.out.codes = << <<"1", "0">>, <<"9">> >>
    /\ Len(o_last.requests) = 2
    /\ o_last.requests[2].arg = StrV(<<"9">>)

\* the rows of a sheet after the first that do not carry the keyword
HospitalRows(rows) ==
    IF rows = <<>> THEN <<>>
    ELSE SelectSeq(Tail(rows),
                   LAMBDA r : ~row_contains_string(r, HIRA_HEADER_KEYWORD))

\* C27: get_hospitals returns one Hospital for each row after the first
\* that is not a header row, in sheet order, with the ids 1, 2, ..., n, also
\* when a row with the header keyword stands among the data rows.
C27_SequentialIds ==
    p_fn = "get_hospitals" =>
        /\ Len(p_out) = Len(HospitalRows(p_in))
        /\ \A k \in 1..Len(p_out) :
               /\ p_out[k].id = k
               /\ p_out[k].name = HospitalRows(p_in)[k][2]

\* the rows save_to_csv does not skip
WrittenRows(rows, skip) ==
    SelectSeq(rows, LAMBDA r :
        ~(skip # <<>> /\ row_contains_string(r, skip)))

\* C28: with three columns save_to_csv writes, after the column row, one
\* row [k, name, address] per row that is not skipped, k counting from 1
\* without gaps, name and address being the cells at positions 1 and 10 of
\* the row (the name and address columns of HOSPITAL_COLUMNS).
C28_ThreeColumnExport ==
    (p_fn = "save_to_csv" /\ Len(p_out.columns) = 3) =>
        LET written == WrittenRows(p_in, p_out.skip_header_keyword)
        IN  /\ Len(p_out.rows) = Len(written) + 1
            /\ \A k \in 1..Len(written) :
                   p_out.rows[k + 1] =
                       <<DecimalText(k), CellAt(written[k], 1),
                         CellAt(written[k], 10)>>

\* the entries of the health trace with the given event, in order
EventSeq(ev) == SelectSeq(h_trace, LAMBDA e : e.ev = ev)

\* the sum of the n of a sequence of events
RECURSIVE SumN(_)
SumN(events) ==
    IF events = <<>> THEN 0 ELSE Head(events).n + SumN(Tail(events))

\* the value of a key in a request body
BodyValue(body, key) ==
    LET i == CHOOSE i \in 1..Len(body) : body[i][1] = key IN body[i][2]

\* C29: _fetch_by_initial requests the pages 1, 2, ... in order, the body of
\* the request for page n carrying req_page = n, listup = page_size, the
\* percent-encoded initial and, in every other field of SearchPayload, the
\* default; it appends the medicines of each page as parsed, in page order,
\* stops at the first page k that parses to zero medicines and returns the
\* medicines of the pages 1..k-1.
C29_PageAccumulation ==
    /\ [](/\ \A j \in 1..Len(EventSeq("post")) :
                LET body == EventSeq("post")[j].body
                IN  /\ Len(body) = Len(SearchPayloadFields)
                    /\ \A i \in 1..Len(body) :
                           /\ body[i][1] = SearchPayloadFields[i]
                           /\ body[i][2] =
                                CASE body[i][1] = "req_page" -> DecimalText(j)
                                  [] body[i][1] = "listup" ->
                                         DecimalText(DEFAULT_PAGE_SIZE)
                                  [] body[i][1] = "search_drugnm_initial" ->
                                         quote(KOREAN_INITIALS[h_idx])
                                  [] OTHER ->
                                         SearchPayload(1, 1000, <<>>)[body[i][1]]
          /\ \A j \in 1..Len(EventSeq("parse")) :
                /\ EventSeq("parse")[j].page = j
                /\ EventSeq("parse")[j].n = 0 =>
                       j = Len(EventSeq("parse")) /\ h_pc = "done"
          /\ Len(h_medicines) = SumN(EventSeq("parse"))
          /\ h_pc = "done" =>
                /\ EventSeq("parse")[Len(EventSeq("parse"))].n = 0
                /\ h_result.value = h_medicines)
    /\ [][(h_pc = "loop" /\ h_medicines' # h_medicines) =>
             \E rs \in HealthPages :
                 /\ MedicineTableParser_parse(rs) # <<>>
                 /\ h_medicines' = h_medicines \o MedicineTableParser_parse(rs)
                 /\ h_trace'[Len(h_trace') - 1].ev = "parse"
                 /\ h_trace'[Len(h_trace') - 1].n
                        = Len(MedicineTableParser_parse(rs))]_vars

\* two pages with medicines were appended, the third parsed to none and the
\* call returned what the two pages held
C29_Witness ==
    /\ h_pc = "done"
    /\ Len(EventSeq("post")) = 3
    /\ EventSeq("parse")[1].n > 0
    /\ EventSeq("parse")[2].n > 0
    /\ EventSeq("parse")[3].n = 0
    /\ BodyValue(EventSeq("post")[3].body, "req_page") = <<"3">>
    /\ BodyValue(EventSeq("post")[3].body, "movefrom") = <<"drug">>
    /\ Len(h_result.value) = EventSeq("parse")[1].n + EventSeq("parse")[2].n
====
